---- MODULE Spec2Model ----
(***************************************************************************)
(* Attic control-plane client: the socket client of attic_cli             *)
(* (cli_client.py, protocol.py) talking to an AtticServer over one Unix    *)
(* stream socket, and the REPL dispatcher (repl.py, commands.py).          *)
(*                                                                         *)
(* A Python str / bytes value is a sequence of one-character strings.     *)
(* Two byte values stand for the UTF-8 encoding of one non-ASCII          *)
(* character: "xC3" (lead byte) and "xA9" (continuation byte), which      *)
(* decode together to "U+00E9"; the replacement character is "U+FFFD".    *)
(***************************************************************************)
EXTENDS Integers, Sequences, FiniteSets, TLC

\* ------------------------------------------------------------------ bounds
MaxCalls == 3
MaxEvents == 2
MaxStream == 4
MaxTurns == 3
MaxHandles == 2
MaxText == 3
MaxFiles == 2
MaxScans == 2
MaxEnv == 1
MaxTools == 2
MaxWireCalls == 2
MaxWireEvents == 1

\* --------------------------------------------------------- protocol.py
COMMAND_PREFIX == <<"C", "M", "D", ":">>
OK_PREFIX == <<"O", "K", ":">>
ERROR_PREFIX == <<"E", "R", "R", ":">>
EVENT_PREFIX == <<"E", "V", "E", "N", "T", ":">>
MULTI_LINE_SEP == "x1E"
MAX_RECV == 4096
NL == "\n"

\* ------------------------------------------------------ string helpers
Min(a, b) == IF a <= b THEN a ELSE b

Drop(s, n) == SubSeq(s, n + 1, Len(s))

Take(s, n) == SubSeq(s, 1, n)

\* str.startswith
StartsWith(s, p) == Len(s) >= Len(p) /\ SubSeq(s, 1, Len(p)) = p

\* c in s
Contains(s, c) == \E i \in 1..Len(s) : s[i] = c

\* s.index(c), for a string that contains c
IndexOf(s, c) == CHOOSE i \in 1..Len(s) : s[i] = c /\ \A j \in 1..(i - 1) : s[j] # c

\* s.split(c, 1): the part before the first c and the part after it
SplitFirst(s, c) == IF Contains(s, c) THEN <<Take(s, IndexOf(s, c) - 1), Drop(s, IndexOf(s, c))>> ELSE <<s>>

\* bytes.decode("utf-8", errors="replace") of one recv chunk
RECURSIVE Decode(_)
Decode(b) ==
    IF b = <<>> THEN <<>>
    ELSE IF b[1] = "xC3"
         THEN IF Len(b) >= 2 /\ b[2] = "xA9"
              THEN <<"U+00E9">> \o Decode(Drop(b, 2))
              ELSE <<"U+FFFD">> \o Decode(Drop(b, 1))
         ELSE IF b[1] = "xA9"
              THEN <<"U+FFFD">> \o Decode(Drop(b, 1))
              ELSE <<b[1]>> \o Decode(Drop(b, 1))

\* f"{COMMAND_PREFIX}{command}\n".encode()
Encode(command) == COMMAND_PREFIX \o command \o <<NL>>

\* a variant of parse_response that takes a frame without a known prefix for
\* an error reply
parse_response_lenient(raw) ==
    IF StartsWith(raw, OK_PREFIX)
    THEN [kind |-> "response", success |-> TRUE, payload |-> Drop(raw, Len(OK_PREFIX)),
          is_multiline |-> Contains(Drop(raw, Len(OK_PREFIX)), MULTI_LINE_SEP)]
    ELSE IF StartsWith(raw, ERROR_PREFIX)
         THEN [kind |-> "response", success |-> FALSE, payload |-> Drop(raw, Len(ERROR_PREFIX)),
               is_multiline |-> FALSE]
         ELSE [kind |-> "response", success |-> FALSE, payload |-> raw, is_multiline |-> FALSE]

\* parse_response: a CLIResponse, or the ValueError it raises
parse_response(raw) ==
    IF StartsWith(raw, OK_PREFIX)
    THEN [kind |-> "response", success |-> TRUE, payload |-> Drop(raw, Len(OK_PREFIX)),
          is_multiline |-> Contains(Drop(raw, Len(OK_PREFIX)), MULTI_LINE_SEP)]
    ELSE IF StartsWith(raw, ERROR_PREFIX)
         THEN [kind |-> "response", success |-> FALSE, payload |-> Drop(raw, Len(ERROR_PREFIX)),
               is_multiline |-> FALSE]
         ELSE [kind |-> "ValueError", success |-> FALSE, payload |-> raw, is_multiline |-> FALSE]

\* a variant of parse_event that splits at the last space
parse_event_last_space(raw) ==
    LET body == Drop(raw, Len(EVENT_PREFIX))
    IN IF Contains(body, " ")
       THEN LET i == CHOOSE i \in 1..Len(body) :
                         body[i] = " " /\ \A j \in (i + 1)..Len(body) : body[j] # " "
            IN [kind |-> Take(body, i - 1), data |-> Drop(body, i)]
       ELSE [kind |-> body, data |-> <<>>]

\* parse_event: kind and data of an EVENT: line
parse_event(raw) ==
    LET body == Drop(raw, Len(EVENT_PREFIX))
        parts == SplitFirst(body, " ")
    IN [kind |-> parts[1], data |-> IF Len(parts) > 1 THEN parts[2] ELSE <<>>]

\* ------------------------------------------------------------ state
VARIABLES
    sock,           \* CLISocketClient._sock: NoSock or Open
    buffer,         \* CLISocketClient._buffer (decoded characters)
    connected,      \* CLISocketClient._connected
    event_queue,    \* CLISocketClient._event_queue
    io_lock,        \* CLISocketClient._io_lock: 0 when free, else the holder
    pc,             \* where each calling thread is inside send / connect
    result,         \* what each thread's last finished call returned or raised
    toServer,       \* bytes written by the client, not yet read by the server
    toClient,       \* bytes written by the server, not yet received
    peer,           \* the server's end: "up", "closed" or "reset"
    nCalls,         \* how many times connect or send has been called
    nEvents,        \* how many events the server has emitted
    evRead,         \* the EVENT: lines _read_response has read, in order
    drained         \* everything drain_events has returned, in order

connVars == <<sock, buffer, connected, event_queue, io_lock, pc, result,
              toServer, toClient, peer, nCalls, nEvents, evRead,
              drained>>

\* the byte stream of one connection and what _read_line_raw made of it
VARIABLES
    stream,         \* every byte the server has written on the connection
    linesOut        \* the lines successive _read_line_raw calls have returned

streamVars == <<stream, linesOut>>

\* run_repl
VARIABLES
    mode,           \* run_repl's mode
    current_drive,  \* run_repl's current_drive
    in_assembly,    \* run_repl's in_assembly
    assembly_addr,  \* run_repl's assembly_addr
    rpc,            \* where run_repl is: "prompt", "batch", "done" or "raised"
    got,            \* what the last session.prompt gave: "line" or the exception
    last_line,      \* the line the last session.prompt returned
    commands,       \* the commands of the current batch not yet sent
    turn,           \* the sends, the assignments to current_drive and the screen
                    \* output since the last prompt, in order
    reply,          \* what run_repl's most recent client.send returned or raised
    nTurns          \* how many times the prompt has been answered

replVars == <<mode, current_drive, in_assembly, assembly_addr, rpc, got, last_line,
              commands, turn, reply, nTurns>>

\* one line handed to the translator of a mode
VARIABLES
    t_mode,         \* the mode whose translator is applied
    t_line,         \* the line (trimmed, non-empty)
    t_out           \* the list of commands returned, <<>> before the call

xlatVars == <<t_mode, t_line, t_out>>

\* a DosMode object and one call of its handle
VARIABLES
    h_drive,        \* DosMode.current_drive
    h_pc,           \* where handle is: "idle" or "loop"
    h_cmds,         \* handle's commands not yet sent
    h_results,      \* handle's results list
    h_sent,         \* the commands the current handle call has sent
    h_reply,        \* what handle's most recent client.send returned or raised
    h_return,       \* what the last handle call returned: <<>> for None, else <<text>>
    nHandles        \* how many times handle has been called

modeVars == <<h_drive, h_pc, h_cmds, h_results, h_sent, h_reply, h_return, nHandles>>

\* discover_socket and what it looks at
VARIABLES
    d_variant,      \* which discover_socket runs: "cli" (attic_cli) or "mcp" (attic_mcp)
    d_dir,          \* the /tmp/attic-*.sock files, in the order glob lists them
    d_proc,         \* the process table: pid -> "running", "foreign" or "gone"
    d_pc,           \* "idle", or "scan" inside the for loop
    d_todo,         \* the paths glob returned that the loop has not reached
    d_cands,        \* candidates
    d_unlinks,      \* the paths the current call handed to os.unlink
    d_ret,          \* what the last finished call returned or raised
    d_epoch,        \* how many times a server has changed files or processes
    d_start,        \* d_epoch when the current call began
    nScans          \* calls of discover_socket so far
discVars == <<d_variant, d_dir, d_proc, d_pc, d_todo, d_cands, d_unlinks, d_ret,
              d_epoch, d_start, nScans>>

\* the MCP server's tools and its client (attic_mcp)
VARIABLES
    m_sock,         \* attic_mcp CLISocketClient._sock: "None" or "Open"
    m_wire,         \* the commands written to the socket during the current tool call
    m_connects,     \* calls of connect during the current tool call
    m_tool,         \* the tool being called
    m_data,         \* emulator_write_memory: its data argument
    m_pc,           \* where the tool call is: "off", "idle", "input", "cleanup", "end"
    m_instrs,       \* emulator_assemble_block: instructions not yet sent
    m_cmds,         \* the commands the current call has handed to _send
    m_lines,        \* emulator_assemble_block: assembled_lines
    m_exc,          \* the exception the except clause is handling
    m_result,       \* what the last finished tool call returned or raised
    nTools          \* tool calls so far
toolVars == <<m_sock, m_wire, m_connects, m_tool, m_data, m_pc, m_instrs, m_cmds, m_lines,
              m_exc, m_result, nTools>>


\* the MCP bridge _send and the attic_mcp client's send, statement by
\* statement, for the tool calls that run at the same time
VARIABLES
    w_sock,         \* _client._sock: "None" or "Open"
    w_buffer,       \* _client._buffer
    w_toServer,     \* bytes written to the socket, not yet read by the server
    w_toClient,     \* bytes written by the server, not yet received
    w_peer,         \* the server's end of the connection: "up" or "closed"
    w_pc,           \* per tool call: "off", "idle", "discover", "write", "read", "done"
    w_cmd,          \* per tool call: the command of the send it is in
    w_ping,         \* per tool call: the send is the ping of connect
    w_again,        \* per tool call: _send is in its except clause or after it
    w_trace,        \* per tool call: what _send has done so far
    w_ret,          \* per tool call: what _send returned or raised
    nWire,          \* calls of _send so far
    nWireEvents     \* events the server has emitted
wireVars == <<w_sock, w_buffer, w_toServer, w_toClient, w_peer, w_pc, w_cmd, w_ping, w_again,
              w_trace, w_ret, nWire, nWireEvents>>

extVars == <<discVars, toolVars, wireVars>>

Pids == {1, 2}

\* nothing has called discover_socket
NoReturn == [kind |-> "none yet", path |-> <<>>, began |-> 0]
DiscIdle ==
    /\ d_variant = "cli" /\ d_dir = <<>> /\ d_proc = [p \in Pids |-> "gone"]
    /\ d_pc = "idle" /\ d_todo = <<>> /\ d_cands = <<>> /\ d_unlinks = <<>>
    /\ d_ret = NoReturn /\ d_epoch = 0 /\ d_start = 0 /\ nScans = 0

\* the MCP server is not running
NoToolResult == [kind |-> "none yet", value |-> <<>>]
ToolsIdle ==
    /\ m_sock = "None" /\ m_wire = <<>> /\ m_connects = 0
    /\ m_tool = "none" /\ m_data = <<>> /\ m_pc = "off" /\ m_instrs = <<>> /\ m_cmds = <<>>
    /\ m_lines = <<>> /\ m_exc = "" /\ m_result = NoToolResult /\ nTools = 0

\* the tool calls that may run at the same time
Calls == {1, 2}

\* no tool call is being followed statement by statement
NoWireResult == [kind |-> "none yet", value |-> <<>>]
WireIdle ==
    /\ w_sock = "None" /\ w_buffer = <<>> /\ w_toServer = <<>> /\ w_toClient = <<>>
    /\ w_peer = "up"
    /\ w_pc = [k \in Calls |-> "off"]
    /\ w_cmd = [k \in Calls |-> <<>>]
    /\ w_ping = [k \in Calls |-> FALSE]
    /\ w_again = [k \in Calls |-> FALSE]
    /\ w_trace = [k \in Calls |-> <<>>]
    /\ w_ret = [k \in Calls |-> NoWireResult]
    /\ nWire = 0 /\ nWireEvents = 0

ExtIdle == DiscIdle /\ ToolsIdle /\ WireIdle

\* what the socket client's operations leave alone
nonConnVars == <<streamVars, replVars, xlatVars, modeVars, extVars>>

\* no line has been handed to a translator
XlatIdle == t_mode = "basic" /\ t_line = <<>> /\ t_out = <<>>

\* DosMode.__init__
ModeStart ==
    /\ h_drive = 1
    /\ h_pc = "idle" /\ h_cmds = <<>> /\ h_results = <<>> /\ h_sent = <<>>
    /\ h_reply = [kind |-> "none", success |-> FALSE, payload |-> <<>>, is_multiline |-> FALSE]
    /\ h_return = <<>> /\ nHandles = 0

\* no stream is being followed
StreamIdle == stream = <<>> /\ linesOut = <<>>

Threads == {1, 2}
\* the thread that created the client: it connects, disconnects and drains
Owner == 1
NoSock == "None"
Open == "open"
Ping == <<"p", "i", "n", "g">>
Pong == <<"p", "o", "n", "g">>

\* the command each calling thread sends
Cmd(t) == IF t = 1 THEN <<"a">> ELSE <<"b">>

NoResult == [kind |-> "none", success |-> FALSE, payload |-> <<>>, is_multiline |-> FALSE]

\* run_repl's locals as it enters its loop
ReplStart ==
    /\ mode = "basic" /\ current_drive = 1 /\ in_assembly = FALSE /\ assembly_addr = 0
    /\ rpc = "prompt" /\ got = "none" /\ last_line = <<>> /\ commands = <<>> /\ turn = <<>>
    /\ reply = NoResult /\ nTurns = 0

\* a raised CLIConnectionError and its message; the text of the operating
\* system's error that follows "Send failed: ", "Socket error: " and
\* "Cannot connect to " is left out
ConnError(msg) == [kind |-> "CLIConnectionError", success |-> FALSE, payload |-> msg, is_multiline |-> FALSE]

NOT_CONNECTED == <<"N", "o", "t", " ", "c", "o", "n", "n", "e", "c", "t", "e", "d">>
SEND_FAILED == <<"S", "e", "n", "d", " ", "f", "a", "i", "l", "e", "d", ":", " ">>
TIMED_OUT == <<"T", "i", "m", "e", "d", " ", "o", "u", "t", " ", "w", "a", "i", "t", "i", "n", "g", " ", "f", "o", "r", " ", "r", "e", "s", "p", "o", "n", "s", "e">>
SOCKET_ERROR == <<"S", "o", "c", "k", "e", "t", " ", "e", "r", "r", "o", "r", ":", " ">>
SERVER_CLOSED == <<"S", "e", "r", "v", "e", "r", " ", "c", "l", "o", "s", "e", "d", " ", "c", "o", "n", "n", "e", "c", "t", "i", "o", "n">>
CANNOT_CONNECT == <<"C", "a", "n", "n", "o", "t", " ", "c", "o", "n", "n", "e", "c", "t", " ", "t", "o", " ">>
UNEXPECTED_PING == <<"U", "n", "e", "x", "p", "e", "c", "t", "e", "d", " ", "p", "i", "n", "g", " ", "r", "e", "s", "p", "o", "n", "s", "e", ":", " ">>

\* CLISocketClient.is_connected
is_connected == connected /\ sock # NoSock

\* a disconnect that forgets to reset the receive buffer
disconnect_keeps_buffer(c) == [sock |-> NoSock, buffer |-> c.buffer, connected |-> FALSE]

\* CLISocketClient.disconnect on the fields it assigns
disconnect(c) == [sock |-> NoSock, buffer |-> <<>>, connected |-> FALSE]

ClientFields == [sock |-> sock, buffer |-> buffer, connected |-> connected]

\* a disconnect that starts over with a new queue
kept_queue_cleared(q) == <<>>

\* _event_queue across disconnect: the queue made in __init__ is not among
\* the fields disconnect assigns
kept_queue(q) == q

\* a handshake test that accepts any OK: reply
PingOk_any_payload(line) == StartsWith(line, OK_PREFIX)

\* the handshake test of connect
PingOk(line) == StartsWith(line, OK_PREFIX) /\ Drop(line, Len(OK_PREFIX)) = Pong

\* a _read_response that takes the first line read as the reply
IsEventLine_never(line) == FALSE

\* the test of _read_response that sends a line to the event queue
IsEventLine(line) == StartsWith(line, EVENT_PREFIX)

\* a queue that hands out the newest event first
QueuePut_front(q, e) == <<e>> \o q

\* queue.Queue.put
QueuePut(q, e) == Append(q, e)

\* `with self._io_lock`: the lock can be taken when nobody holds it
LockFree == io_lock = 0

\* ---------------------------------------------------------- the server
\* The frames a server may answer a command with: ping with pong (or, when
\* it is not an AtticServer, with another payload), any other command with
\* OK: and a payload that names the command, and besides that the command a
\* with ERR:, every other command with a frame that has none of the
\* protocol's prefixes.
Responses(c) ==
    IF c = Ping THEN {OK_PREFIX \o Pong, OK_PREFIX \o <<"p">>}
    ELSE IF c = <<"a">> THEN {OK_PREFIX \o c, ERROR_PREFIX \o c}
    ELSE {OK_PREFIX \o c, <<"?">>}

EventFrame(n) == EVENT_PREFIX \o (IF n % 2 = 1 THEN <<"x">> ELSE <<"y", " ", "z">>)

AllIdle == \A t \in Threads : pc[t] = "idle"

\* CLISocketClient(): no socket, nothing buffered or queued, no call made
ClientNew ==
    /\ sock = NoSock /\ buffer = <<>> /\ connected = FALSE /\ event_queue = <<>>
    /\ io_lock = 0
    /\ pc = [t \in Threads |-> "idle"]
    /\ result = [t \in Threads |-> NoResult]
    /\ toServer = <<>> /\ toClient = <<>> /\ peer = "up"
    /\ nCalls = 0 /\ nEvents = 0
    /\ evRead = <<>> /\ drained = <<>>

Init ==
    /\ ClientNew
    /\ StreamIdle /\ ReplStart /\ XlatIdle /\ ModeStart /\ ExtIdle

\* ------------------------------------------------- connect / disconnect
\* connect and disconnect are called by the thread that owns the client
\* (main, run_repl) while no other call on it is in progress.

\* connect, up to and including the write of the ping frame: disconnect(),
\* socket.connect() succeeds, _buffer is reset and CMD:ping is written.
ConnectBegin(t) ==
    /\ AllIdle /\ nCalls < MaxCalls
    /\ nCalls' = nCalls + 1
    /\ sock' = Open /\ buffer' = <<>> /\ connected' = disconnect(ClientFields).connected
    /\ toServer' = Encode(Ping) /\ toClient' = <<>> /\ peer' = "up"
    /\ pc' = [pc EXCEPT ![t] = "conn_read"]
    /\ result' = [result EXCEPT ![t] = NoResult]
    /\ event_queue' = kept_queue(event_queue)
    /\ UNCHANGED <<io_lock, nEvents, evRead, drained>>
    /\ UNCHANGED nonConnVars

\* connect when socket.connect() raises OSError: disconnect() has run, the
\* error is raised as CLIConnectionError.
ConnectRefused(t) ==
    /\ AllIdle /\ nCalls < MaxCalls
    /\ nCalls' = nCalls + 1
    /\ LET d == disconnect(ClientFields)
       IN sock' = d.sock /\ buffer' = d.buffer /\ connected' = d.connected
    /\ toServer' = <<>> /\ toClient' = <<>> /\ peer' = "up"
    /\ result' = [result EXCEPT ![t] = ConnError(CANNOT_CONNECT)]
    /\ event_queue' = kept_queue(event_queue)
    /\ UNCHANGED <<io_lock, pc, nEvents, evRead, drained>>
    /\ UNCHANGED nonConnVars

\* disconnect: closes the socket when there is one, clears the fields
Disconnect(t) ==
    /\ AllIdle
    /\ LET d == disconnect(ClientFields)
       IN sock' = d.sock /\ buffer' = d.buffer /\ connected' = d.connected
    /\ toServer' = <<>> /\ toClient' = <<>> /\ peer' = "up"
    /\ event_queue' = kept_queue(event_queue)
    /\ UNCHANGED <<io_lock, pc, result, nCalls, nEvents, evRead, drained>>
    /\ UNCHANGED nonConnVars

\* ----------------------------------------------------------------- send
\* send, the check before the lock: `if self._sock is None: raise`
SendBegin(t) ==
    /\ pc[t] = "idle" /\ \A u \in Threads : pc[u] # "conn_read"
    /\ nCalls < MaxCalls
    /\ nCalls' = nCalls + 1
    /\ IF sock = NoSock
       THEN /\ result' = [result EXCEPT ![t] = ConnError(NOT_CONNECTED)]
            /\ pc' = pc
       ELSE /\ result' = result
            /\ pc' = [pc EXCEPT ![t] = "acquire"]
    /\ UNCHANGED <<sock, buffer, connected, event_queue, io_lock, toServer, toClient, peer,
                   nEvents, evRead, drained>>
    /\ UNCHANGED nonConnVars

\* `with self._io_lock:` entered and sendall(wire) succeeds: the whole frame
\* is written
SendWrite(t) ==
    /\ pc[t] = "acquire" /\ LockFree /\ peer = "up"
    /\ io_lock' = t
    /\ toServer' = toServer \o Encode(Cmd(t))
    /\ pc' = [pc EXCEPT ![t] = "read"]
    /\ UNCHANGED <<sock, buffer, connected, event_queue, result,
                   toClient, peer, nCalls, nEvents, evRead, drained>>
    /\ UNCHANGED nonConnVars

\* `with self._io_lock:` entered and sendall(wire) raises OSError (the peer
\* is gone): _connected = False, CLIConnectionError, the lock is released
SendWriteError(t) ==
    /\ pc[t] = "acquire" /\ LockFree /\ peer # "up"
    /\ connected' = FALSE
    /\ io_lock' = 0
    /\ pc' = [pc EXCEPT ![t] = "idle"]
    /\ result' = [result EXCEPT ![t] = ConnError(SEND_FAILED)]
    /\ UNCHANGED <<sock, buffer, event_queue, toServer, toClient, peer,
                   nCalls, nEvents, evRead, drained>>
    /\ UNCHANGED nonConnVars

\* -------------------------------------------------------- _read_line_raw
Reading(t) == pc[t] \in {"read", "conn_read"}

\* CLIConnectionError(msg) leaves _read_line_raw with _connected set to
\* conn: inside connect the handler runs disconnect(); inside send the lock
\* is released
RaiseFromRead(t, conn, msg) ==
    /\ pc' = [pc EXCEPT ![t] = "idle"]
    /\ result' = [result EXCEPT ![t] = ConnError(msg)]
    /\ IF pc[t] = "conn_read"
       THEN /\ LET d == disconnect(ClientFields)
               IN sock' = d.sock /\ buffer' = d.buffer /\ connected' = d.connected
            /\ toServer' = <<>> /\ toClient' = <<>> /\ peer' = "up"
            /\ UNCHANGED io_lock
       ELSE /\ connected' = conn
            /\ io_lock' = 0
            /\ UNCHANGED <<sock, buffer, toServer, toClient, peer>>
    /\ UNCHANGED <<event_queue, nCalls, nEvents, evRead, drained>>
    /\ UNCHANGED nonConnVars

\* the sizes recv may return when avail bytes are in flight: all of them, or
\* all but the last one (which is still in transit), at most MAX_RECV
ChunkSizes(avail) == {n \in {avail - 1, avail} : 1 <= n /\ n <= MAX_RECV}

\* self._buffer += chunk.decode("utf-8", errors="replace")
BufferAdd(buf, chunk) == buf \o Decode(chunk)

\* recv returns a chunk, which is decoded and appended to the buffer
RecvChunk(t) ==
    /\ Reading(t) /\ ~Contains(buffer, NL) /\ peer # "reset" /\ toClient # <<>>
    /\ \E n \in ChunkSizes(Len(toClient)) :
          /\ buffer' = BufferAdd(buffer, Take(toClient, n))
          /\ toClient' = Drop(toClient, n)
    /\ UNCHANGED <<sock, connected, event_queue, io_lock, pc, result, toServer,
                   peer, nCalls, nEvents, evRead, drained>>
    /\ UNCHANGED nonConnVars

\* recv raises socket.timeout: nothing arrived in time; _connected is left
\* as it is
RecvTimeout(t) ==
    /\ Reading(t) /\ ~Contains(buffer, NL) /\ peer = "up" /\ toClient = <<>>
    /\ RaiseFromRead(t, connected, TIMED_OUT)

\* recv returns b"": the peer has closed
RecvClosed(t) ==
    /\ Reading(t) /\ ~Contains(buffer, NL) /\ peer = "closed" /\ toClient = <<>>
    /\ RaiseFromRead(t, FALSE, SERVER_CLOSED)

\* recv raises OSError
RecvError(t) ==
    /\ Reading(t) /\ ~Contains(buffer, NL) /\ peer = "reset"
    /\ RaiseFromRead(t, FALSE, SOCKET_ERROR)

\* ------------------------------------------------------- _read_response
\* a complete line is in the buffer and starts with EVENT: -- it is parsed,
\* queued, and the loop reads on
ReadEventLine(t) ==
    /\ pc[t] = "read" /\ Contains(buffer, NL)
    /\ LET parts == SplitFirst(buffer, NL)
       IN /\ IsEventLine(parts[1])
          /\ buffer' = parts[2]
          /\ event_queue' = QueuePut(event_queue, parse_event(parts[1]))
          /\ evRead' = Append(evRead, parts[1])
    /\ UNCHANGED <<sock, connected, io_lock, pc, result, toServer, toClient, peer,
                   nCalls, nEvents, drained>>
    /\ UNCHANGED nonConnVars

\* a complete line that is no event: parse_response returns the CLIResponse
\* or raises ValueError; either way send ends and the lock is released
ReadReplyLine(t) ==
    /\ pc[t] = "read" /\ Contains(buffer, NL)
    /\ LET parts == SplitFirst(buffer, NL)
       IN /\ ~IsEventLine(parts[1])
          /\ buffer' = parts[2]
          /\ result' = [result EXCEPT ![t] = parse_response(parts[1])]
    /\ io_lock' = 0
    /\ pc' = [pc EXCEPT ![t] = "idle"]
    /\ UNCHANGED <<sock, connected, event_queue, toServer, toClient, peer,
                   nCalls, nEvents, evRead, drained>>
    /\ UNCHANGED nonConnVars

\* connect, after the ping: the line read must be exactly OK:pong, else the
\* handler disconnects and the error is raised
HandshakeLine(t) ==
    /\ pc[t] = "conn_read" /\ Contains(buffer, NL)
    /\ LET parts == SplitFirst(buffer, NL)
           d == disconnect(ClientFields)
       IN IF PingOk(parts[1])
          THEN /\ buffer' = parts[2] /\ connected' = TRUE
               /\ result' = [result EXCEPT ![t] = NoResult]
               /\ UNCHANGED <<sock, toServer, toClient, peer>>
          ELSE /\ sock' = d.sock /\ buffer' = d.buffer /\ connected' = d.connected
               /\ toServer' = <<>> /\ toClient' = <<>> /\ peer' = "up"
               /\ result' = [result EXCEPT ![t] = ConnError(UNEXPECTED_PING)]
    /\ pc' = [pc EXCEPT ![t] = "idle"]
    /\ UNCHANGED <<event_queue, io_lock, nCalls, nEvents,
                   evRead, drained>>
    /\ UNCHANGED nonConnVars

\* drain_events: returns the whole queue and leaves it empty
DrainEvents(t) ==
    /\ pc[t] = "idle" /\ event_queue # <<>>
    /\ drained' = drained \o event_queue
    /\ event_queue' = <<>>
    /\ UNCHANGED <<sock, buffer, connected, io_lock, pc, result, toServer,
                   toClient, peer, nCalls, nEvents, evRead>>
    /\ UNCHANGED nonConnVars

\* ------------------------------------------------------------ the server
\* the server reads the oldest command line and answers it
ServerReply ==
    /\ sock = Open /\ peer = "up" /\ Contains(toServer, NL)
    /\ LET parts == SplitFirst(toServer, NL)
           c == Drop(parts[1], Len(COMMAND_PREFIX))
       IN /\ toServer' = parts[2]
          /\ \E r \in Responses(c) : toClient' = toClient \o r \o <<NL>>
    /\ UNCHANGED <<sock, buffer, connected, event_queue, io_lock, pc, result,
                   peer, nCalls, nEvents, evRead, drained>>
    /\ UNCHANGED nonConnVars

\* the server emits an asynchronous event
ServerEvent ==
    /\ sock = Open /\ peer = "up" /\ nEvents < MaxEvents
    /\ nEvents' = nEvents + 1
    /\ toClient' = toClient \o EventFrame(nEvents + 1) \o <<NL>>
    /\ UNCHANGED <<sock, buffer, connected, event_queue, io_lock, pc, result,
                   toServer, peer, nCalls, evRead, drained>>
    /\ UNCHANGED nonConnVars

\* the server closes its end; what it has written can still be received
ServerClose ==
    /\ sock = Open /\ peer = "up"
    /\ peer' = "closed"
    /\ UNCHANGED <<sock, buffer, connected, event_queue, io_lock, pc, result,
                   toServer, toClient, nCalls, nEvents, evRead, drained>>
    /\ UNCHANGED nonConnVars

\* the connection breaks: recv will raise OSError
ServerReset ==
    /\ sock = Open /\ peer = "up"
    /\ peer' = "reset" /\ toClient' = <<>>
    /\ UNCHANGED <<sock, buffer, connected, event_queue, io_lock, pc, result,
                   toServer, nCalls, nEvents, evRead, drained>>
    /\ UNCHANGED nonConnVars

ConnNext ==
    \/ ConnectBegin(Owner)
    \/ ConnectRefused(Owner)
    \/ Disconnect(Owner)
    \/ \E t \in Threads : SendBegin(t)
    \/ \E t \in Threads : SendWrite(t)
    \/ \E t \in Threads : SendWriteError(t)
    \/ \E t \in Threads : RecvChunk(t)
    \/ \E t \in Threads : RecvTimeout(t)
    \/ \E t \in Threads : RecvClosed(t)
    \/ \E t \in Threads : RecvError(t)
    \/ \E t \in Threads : ReadEventLine(t)
    \/ \E t \in Threads : ReadReplyLine(t)
    \/ \E t \in Threads : HandshakeLine(t)
    \/ DrainEvents(Owner)
    \/ ServerReply
    \/ ServerEvent
    \/ ServerClose
    \/ ServerReset

Next == ConnNext
vars == <<connVars, nonConnVars>>
Spec == Init /\ [][Next]_vars

\* ------------------------------------------- a server that never stops
\* The same client against a server that may emit EVENT: frames for ever.
\* The logs evRead and drained and the counter nEvents are not kept here, so
\* that the endless run is a cycle of finitely many states; the queue is
\* emptied by the owner thread's drain_events while thread 2 is in send.

\* _read_response, the EVENT: branch: parse_event, put, continue
WaitEventLine(t) ==
    /\ pc[t] = "read" /\ Contains(buffer, NL)
    /\ LET parts == SplitFirst(buffer, NL)
       IN /\ IsEventLine(parts[1])
          /\ buffer' = parts[2]
          /\ event_queue' = QueuePut(event_queue, parse_event(parts[1]))
    /\ UNCHANGED <<sock, connected, io_lock, pc, result, toServer, toClient, peer,
                   nCalls, nEvents, evRead, drained>>
    /\ UNCHANGED nonConnVars

\* drain_events: get_nowait until queue.Empty
WaitDrain(t) ==
    /\ pc[t] = "idle" /\ event_queue # <<>>
    /\ event_queue' = <<>>
    /\ UNCHANGED <<sock, buffer, connected, io_lock, pc, result, toServer,
                   toClient, peer, nCalls, nEvents, evRead, drained>>
    /\ UNCHANGED nonConnVars

\* the server emits one more event; it waits until the last frame it wrote
\* was received and the queue has room
ServerEventAgain ==
    /\ sock = Open /\ peer = "up" /\ toClient = <<>>
    /\ Len(event_queue) < MaxEvents
    /\ toClient' = EventFrame(1) \o <<NL>>
    /\ UNCHANGED <<sock, buffer, connected, event_queue, io_lock, pc, result,
                   toServer, peer, nCalls, nEvents, evRead, drained>>
    /\ UNCHANGED nonConnVars

\* what a thread inside send or connect does next: the lock is acquired
\* and the frame written, recv returns or raises, a line is taken
ThreadStep(t) ==
    \/ SendWrite(t)
    \/ SendWriteError(t)
    \/ RecvChunk(t)
    \/ RecvTimeout(t)
    \/ RecvClosed(t)
    \/ RecvError(t)
    \/ WaitEventLine(t)
    \/ ReadReplyLine(t)
    \/ HandshakeLine(t)

WaitNext ==
    \/ ConnectBegin(Owner)
    \/ ConnectRefused(Owner)
    \/ Disconnect(Owner)
    \/ \E t \in Threads : SendBegin(t)
    \/ \E t \in Threads : SendWrite(t)
    \/ \E t \in Threads : SendWriteError(t)
    \/ \E t \in Threads : RecvChunk(t)
    \/ \E t \in Threads : RecvTimeout(t)
    \/ \E t \in Threads : RecvClosed(t)
    \/ \E t \in Threads : RecvError(t)
    \/ \E t \in Threads : WaitEventLine(t)
    \/ \E t \in Threads : ReadReplyLine(t)
    \/ \E t \in Threads : HandshakeLine(t)
    \/ WaitDrain(Owner)
    \/ ServerReply
    \/ ServerEventAgain
    \/ ServerClose
    \/ ServerReset

\* Every blocking call returns or raises (recv has a timeout, the lock is
\* released by its holder) and a thread that can run does run: weak
\* fairness on each thread's steps.  Nothing is assumed of the server.
SpecWait == Init /\ [][WaitNext]_vars /\ \A t \in Threads : WF_vars(ThreadStep(t))

\* ------------------------------------------- one connection's byte stream
\* _read_line_raw called again and again on a connected client whose peer
\* has written a stream of UTF-8 text: the letter a, the newline and the
\* two-byte character U+00E9.
StreamChars == {<<"a">>, <<NL>>, <<"xC3", "xA9">>}

\* the encodings of the texts of exactly n characters
RECURSIVE StreamsOf(_)
StreamsOf(n) ==
    IF n = 0 THEN {<<>>} ELSE {c \o r : c \in StreamChars, r \in StreamsOf(n - 1)}

StreamInit ==
    /\ sock = Open /\ buffer = <<>> /\ connected = TRUE /\ event_queue = <<>>
    /\ io_lock = 0
    /\ pc = [t \in Threads |-> "idle"]
    /\ result = [t \in Threads |-> NoResult]
    /\ toServer = <<>> /\ peer = "up"
    /\ nCalls = 1 /\ nEvents = 0
    /\ evRead = <<>> /\ drained = <<>>
    /\ \E n \in 0..MaxStream : toClient \in StreamsOf(n)
    /\ stream = toClient /\ linesOut = <<>>
    /\ ReplStart /\ XlatIdle /\ ModeStart /\ ExtIdle

\* the loop body of _read_line_raw: recv returns any non-empty prefix of
\* what is in flight, at most MAX_RECV bytes
StreamRecv ==
    /\ ~Contains(buffer, NL) /\ toClient # <<>>
    /\ \E n \in 1..Min(Len(toClient), MAX_RECV) :
          /\ buffer' = BufferAdd(buffer, Take(toClient, n))
          /\ toClient' = Drop(toClient, n)
    /\ UNCHANGED <<sock, connected, event_queue, io_lock, pc, result, toServer, peer,
                   nCalls, nEvents, evRead, drained, stream, linesOut>>
    /\ UNCHANGED <<replVars, xlatVars, modeVars, extVars>>

\* the end of _read_line_raw: the buffer is split at its first newline
StreamReadLine ==
    /\ Contains(buffer, NL)
    /\ linesOut' = Append(linesOut, SplitFirst(buffer, NL)[1])
    /\ buffer' = SplitFirst(buffer, NL)[2]
    /\ UNCHANGED <<sock, connected, event_queue, io_lock, pc, result, toServer, toClient,
                   peer, nCalls, nEvents, evRead, drained, stream>>
    /\ UNCHANGED <<replVars, xlatVars, modeVars, extVars>>

StreamNext == StreamRecv \/ StreamReadLine
SpecStream == StreamInit /\ [][StreamNext]_vars

\* ================================================================ Python str
\* the characters str.strip, str.split() and int() treat as whitespace
Whitespace == {" ", "\t", "\n", "\r"}

UpperLetters == <<"A", "B", "C", "D", "E", "F", "G", "H", "I", "J", "K", "L", "M", "N", "O", "P", "Q", "R", "S", "T", "U", "V", "W", "X", "Y", "Z">>
LowerLetters == <<"a", "b", "c", "d", "e", "f", "g", "h", "i", "j", "k", "l", "m", "n", "o", "p", "q", "r", "s", "t", "u", "v", "w", "x", "y", "z">>

\* the lower-case letter of each upper-case letter, and the reverse
ToLower == [c \in {UpperLetters[k] : k \in 1..Len(UpperLetters)} |->
               LowerLetters[CHOOSE k \in 1..Len(UpperLetters) : UpperLetters[k] = c]]
ToUpper == [c \in {LowerLetters[k] : k \in 1..Len(LowerLetters)} |->
               UpperLetters[CHOOSE k \in 1..Len(LowerLetters) : LowerLetters[k] = c]]

\* str.lower
lower(s) == [i \in 1..Len(s) |-> IF s[i] \in DOMAIN ToLower THEN ToLower[s[i]] ELSE s[i]]

\* str.upper
upper(s) == [i \in 1..Len(s) |-> IF s[i] \in DOMAIN ToUpper THEN ToUpper[s[i]] ELSE s[i]]

\* str.lstrip()
RECURSIVE lstrip(_)
lstrip(s) == IF s # <<>> /\ s[1] \in Whitespace THEN lstrip(Tail(s)) ELSE s

\* str.rstrip()
RECURSIVE rstrip(_)
rstrip(s) == IF s # <<>> /\ s[Len(s)] \in Whitespace THEN rstrip(Take(s, Len(s) - 1)) ELSE s

\* str.strip()
strip(s) == rstrip(lstrip(s))

\* str.lstrip(chars) for one character
RECURSIVE lstrip_char(_, _)
lstrip_char(s, c) == IF s # <<>> /\ s[1] = c THEN lstrip_char(Tail(s), c) ELSE s

\* the length of the first whitespace-free run of a string that starts with one
RECURSIVE WordLen(_)
WordLen(s) == IF s = <<>> \/ s[1] \in Whitespace THEN 0 ELSE 1 + WordLen(Tail(s))

\* str.split(None, 1): the first word, and the rest of the string after the
\* whitespace that follows it when that rest is not empty
split1(s) ==
    LET t == lstrip(s)
        n == WordLen(t)
        rest == lstrip(Drop(t, n))
    IN IF t = <<>> THEN <<>>
       ELSE IF rest = <<>> THEN <<Take(t, n)>> ELSE <<Take(t, n), rest>>

\* str.split(): all the words
RECURSIVE split(_)
split(s) ==
    LET t == lstrip(s)
    IN IF t = <<>> THEN <<>> ELSE <<Take(t, WordLen(t))>> \o split(Drop(t, WordLen(t)))

\* str.split(sep) for a one-character separator: empty parts are kept
RECURSIVE split_sep(_, _)
split_sep(s, c) ==
    IF Contains(s, c) THEN <<SplitFirst(s, c)[1]>> \o split_sep(SplitFirst(s, c)[2], c) ELSE <<s>>

\* the position of the last c in a string that contains c
LastIndexOf(s, c) == CHOOSE i \in 1..Len(s) : s[i] = c /\ \A j \in (i + 1)..Len(s) : s[j] # c

\* str.rsplit(sep, 1) for a one-character separator
rsplit1(s, c) ==
    IF Contains(s, c) THEN <<Take(s, LastIndexOf(s, c) - 1), Drop(s, LastIndexOf(s, c))>> ELSE <<s>>

\* str.replace(old, new) for a one-character old
RECURSIVE replace(_, _, _)
replace(s, c, new) ==
    IF s = <<>> THEN <<>>
    ELSE (IF s[1] = c THEN new ELSE <<s[1]>>) \o replace(Tail(s), c, new)

\* sep.join(parts)
RECURSIVE join(_, _)
join(sep, parts) ==
    IF parts = <<>> THEN <<>>
    ELSE IF Len(parts) = 1 THEN parts[1]
    ELSE parts[1] \o sep \o join(sep, Tail(parts))

HexDigits == <<"0", "1", "2", "3", "4", "5", "6", "7", "8", "9", "A", "B", "C", "D", "E", "F">>

\* the value of one hexadecimal digit, either case; -1 for any other character
HexDigitValue(c) ==
    IF \E k \in 1..Len(HexDigits) : HexDigits[k] = upper(<<c>>)[1]
    THEN (CHOOSE k \in 1..Len(HexDigits) : HexDigits[k] = upper(<<c>>)[1]) - 1
    ELSE -1

\* the value of a string of digits in the given base, most significant first
RECURSIVE DigitsValue(_, _)
DigitsValue(s, base) ==
    IF s = <<>> THEN 0
    ELSE DigitsValue(Take(s, Len(s) - 1), base) * base + HexDigitValue(s[Len(s)])

\* what int(s, base) reads its digits from: s without the surrounding
\* whitespace, one optional sign and, in base 16, an optional 0x prefix
\* (digit-group underscores and non-ASCII digits are not modelled)
IntDigits(s, base) ==
    LET t == strip(s)
        d == IF t # <<>> /\ t[1] \in {"+", "-"} THEN Tail(t) ELSE t
    IN IF base = 16 /\ Len(d) >= 2 /\ d[1] = "0" /\ d[2] \in {"x", "X"} THEN Drop(d, 2) ELSE d

\* int(s, base) raises ValueError
int_fails(s, base) ==
    LET d == IntDigits(s, base)
    IN d = <<>> \/ \E i \in 1..Len(d) : HexDigitValue(d[i]) < 0 \/ HexDigitValue(d[i]) >= base

\* int(s, base) when it does not raise
int_value(s, base) ==
    IF StartsWith(strip(s), <<"-">>)
    THEN 0 - DigitsValue(IntDigits(s, base), base)
    ELSE DigitsValue(IntDigits(s, base), base)

\* the hexadecimal digits of a natural number, upper case
RECURSIVE HexOf(_)
HexOf(n) == IF n < 16 THEN <<HexDigits[n + 1]>> ELSE HexOf(n \div 16) \o <<HexDigits[(n % 16) + 1]>>

\* f"{n:04X}": zero-padded to four characters, the sign of a negative number
\* included
format_04X(n) ==
    LET h == HexOf(IF n < 0 THEN 0 - n ELSE n)
        width == IF n < 0 THEN 3 ELSE 4
        zeros == [i \in 1..(IF Len(h) < width THEN width - Len(h) ELSE 0) |-> "0"]
    IN (IF n < 0 THEN <<"-">> ELSE <<>>) \o zeros \o h

\* ============================================== protocol.py, continued
\* CLIResponse.lines
lines(resp) ==
    IF resp.is_multiline THEN split_sep(resp.payload, MULTI_LINE_SEP)
    ELSE IF resp.payload # <<>> THEN <<resp.payload>> ELSE <<>>

\* ============================================== cli_client.escape_for_inject
\* a variant of escape_for_inject that replaces the backslash last
escape_for_inject_backslash_last(text) ==
    replace(replace(replace(replace(replace(text,
        "\n", <<"\\", "n">>),
        "\t", <<"\\", "t">>),
        "\r", <<"\\", "r">>),
        " ", <<"\\", "s">>),
        "\\", <<"\\", "\\">>)

escape_for_inject(text) ==
    replace(replace(replace(replace(replace(text,
        "\\", <<"\\", "\\">>),
        "\n", <<"\\", "n">>),
        "\t", <<"\\", "t">>),
        "\r", <<"\\", "r">>),
        " ", <<"\\", "s">>)

\* ============================================================ translator.py
\* parts[0] of line.split(None, 1), for a line that has a word
first_word(line) == split1(line)[1]

\* a variant of args that is lower-cased like the command word
args_of_lowered(line) == IF Len(split1(line)) > 1 THEN lower(split1(line)[2]) ELSE <<>>

\* args = parts[1] if len(parts) > 1 else ""
args_of(line) == IF Len(split1(line)) > 1 THEN split1(line)[2] ELSE <<>>

\* [f"{name} {args}"] if args else [bare]
with_args(name, args, bare) == IF args # <<>> THEN <<name \o <<" ">> \o args>> ELSE <<bare>>

translate_monitor(line) ==
    LET cmd == lower(first_word(line))
        args == args_of(line)
    IN CASE cmd = <<"g">> -> IF args # <<>> THEN <<<<"r", "e", "g", "i", "s", "t", "e", "r", "s", " ", "p", "c", "=">> \o args, <<"r", "e", "s", "u", "m", "e">>>> ELSE <<<<"r", "e", "s", "u", "m", "e">>>>
         [] cmd = <<"s">> -> with_args(<<"s", "t", "e", "p">>, args, <<"s", "t", "e", "p">>)
         [] cmd \in {<<"p">>, <<"p", "a", "u", "s", "e">>} -> <<<<"p", "a", "u", "s", "e">>>>
         [] cmd = <<"u", "n", "t", "i", "l">> -> with_args(<<"r", "u", "n", "_", "u", "n", "t", "i", "l">>, args, <<"r", "u", "n", "_", "u", "n", "t", "i", "l">>)
         [] cmd = <<"r">> -> with_args(<<"r", "e", "g", "i", "s", "t", "e", "r", "s">>, args, <<"r", "e", "g", "i", "s", "t", "e", "r", "s">>)
         [] cmd = <<"m">> -> with_args(<<"r", "e", "a", "d">>, args, <<"r", "e", "a", "d">>)
         [] cmd = <<">">> -> with_args(<<"w", "r", "i", "t", "e">>, args, <<"w", "r", "i", "t", "e">>)
         [] cmd = <<"f">> -> with_args(<<"f", "i", "l", "l">>, args, <<"f", "i", "l", "l">>)
         [] cmd = <<"d">> -> with_args(<<"d", "i", "s", "a", "s", "s", "e", "m", "b", "l", "e">>, args, <<"d", "i", "s", "a", "s", "s", "e", "m", "b", "l", "e">>)
         [] cmd = <<"a">> -> with_args(<<"a", "s", "s", "e", "m", "b", "l", "e">>, args, <<"a", "s", "s", "e", "m", "b", "l", "e">>)
         [] cmd \in {<<"b">>, <<"b", "p">>} -> with_args(<<"b", "r", "e", "a", "k", "p", "o", "i", "n", "t", " ", "s", "e", "t">>, args, <<"b", "r", "e", "a", "k", "p", "o", "i", "n", "t", " ", "l", "i", "s", "t">>)
         [] cmd = <<"b", "c">> -> IF args = <<"*">> THEN <<<<"b", "r", "e", "a", "k", "p", "o", "i", "n", "t", " ", "c", "l", "e", "a", "r", "a", "l", "l">>>> ELSE with_args(<<"b", "r", "e", "a", "k", "p", "o", "i", "n", "t", " ", "c", "l", "e", "a", "r">>, args, <<"b", "r", "e", "a", "k", "p", "o", "i", "n", "t", " ", "l", "i", "s", "t">>)
         [] cmd = <<"b", "l">> -> <<<<"b", "r", "e", "a", "k", "p", "o", "i", "n", "t", " ", "l", "i", "s", "t">>>>
         [] OTHER -> <<line>>

\* a variant of the default case that ends the command with a real newline
inject_keys_real_newline(line) ==
    <<<<"i", "n", "j", "e", "c", "t", " ", "k", "e", "y", "s", " ">> \o escape_for_inject(line) \o <<"\n">>>>

\* escaped = escape_for_inject(line); return [f"inject keys {escaped}\\n"]
inject_keys(line) ==
    <<<<"i", "n", "j", "e", "c", "t", " ", "k", "e", "y", "s", " ">> \o escape_for_inject(line) \o <<"\\", "n">>>>

translate_basic(line, atascii) ==
    LET cmd == upper(first_word(line))
        args == args_of(line)
        suffix == IF atascii THEN <<" ", "a", "t", "a", "s", "c", "i", "i">> ELSE <<>>
    IN CASE cmd = <<"L", "I", "S", "T">> -> IF args # <<>> THEN <<<<"b", "a", "s", "i", "c", " ", "l", "i", "s", "t", " ">> \o args \o suffix>> ELSE <<<<"b", "a", "s", "i", "c", " ", "l", "i", "s", "t">> \o suffix>>
         [] cmd = <<"D", "E", "L">> -> with_args(<<"b", "a", "s", "i", "c", " ", "d", "e", "l">>, args, <<"b", "a", "s", "i", "c", " ", "d", "e", "l">>)
         [] cmd = <<"S", "T", "O", "P">> -> <<<<"b", "a", "s", "i", "c", " ", "s", "t", "o", "p">>>>
         [] cmd = <<"C", "O", "N", "T">> -> <<<<"b", "a", "s", "i", "c", " ", "c", "o", "n", "t">>>>
         [] cmd = <<"V", "A", "R", "S">> -> <<<<"b", "a", "s", "i", "c", " ", "v", "a", "r", "s">>>>
         [] cmd = <<"V", "A", "R">> -> with_args(<<"b", "a", "s", "i", "c", " ", "v", "a", "r">>, args, <<"b", "a", "s", "i", "c", " ", "v", "a", "r", "s">>)
         [] cmd = <<"I", "N", "F", "O">> -> <<<<"b", "a", "s", "i", "c", " ", "i", "n", "f", "o">>>>
         [] cmd = <<"E", "X", "P", "O", "R", "T">> -> with_args(<<"b", "a", "s", "i", "c", " ", "e", "x", "p", "o", "r", "t">>, args, <<"b", "a", "s", "i", "c", " ", "e", "x", "p", "o", "r", "t">>)
         [] cmd = <<"I", "M", "P", "O", "R", "T">> -> with_args(<<"b", "a", "s", "i", "c", " ", "i", "m", "p", "o", "r", "t">>, args, <<"b", "a", "s", "i", "c", " ", "i", "m", "p", "o", "r", "t">>)
         [] cmd = <<"D", "I", "R">> -> with_args(<<"b", "a", "s", "i", "c", " ", "d", "i", "r">>, args, <<"b", "a", "s", "i", "c", " ", "d", "i", "r">>)
         [] cmd = <<"R", "E", "N", "U", "M">> -> with_args(<<"b", "a", "s", "i", "c", " ", "r", "e", "n", "u", "m">>, args, <<"b", "a", "s", "i", "c", " ", "r", "e", "n", "u", "m">>)
         [] cmd = <<"S", "A", "V", "E">> -> with_args(<<"b", "a", "s", "i", "c", " ", "s", "a", "v", "e">>, args, <<"b", "a", "s", "i", "c", " ", "s", "a", "v", "e">>)
         [] cmd = <<"L", "O", "A", "D">> -> with_args(<<"b", "a", "s", "i", "c", " ", "l", "o", "a", "d">>, args, <<"b", "a", "s", "i", "c", " ", "l", "o", "a", "d">>)
         [] OTHER -> inject_keys(line)

translate_dos(line) ==
    LET cmd == lower(first_word(line))
        args == args_of(line)
    IN CASE cmd = <<"m", "o", "u", "n", "t">> -> with_args(<<"m", "o", "u", "n", "t">>, args, <<"m", "o", "u", "n", "t">>)
         [] cmd \in {<<"u", "n", "m", "o", "u", "n", "t">>, <<"u", "m", "o", "u", "n", "t">>} -> with_args(<<"u", "n", "m", "o", "u", "n", "t">>, args, <<"u", "n", "m", "o", "u", "n", "t">>)
         [] cmd = <<"d", "r", "i", "v", "e", "s">> -> <<<<"d", "r", "i", "v", "e", "s">>>>
         [] cmd = <<"c", "d">> -> with_args(<<"d", "o", "s", " ", "c", "d">>, args, <<"d", "o", "s", " ", "c", "d">>)
         [] cmd = <<"d", "i", "r">> -> with_args(<<"d", "o", "s", " ", "d", "i", "r">>, args, <<"d", "o", "s", " ", "d", "i", "r">>)
         [] cmd = <<"i", "n", "f", "o">> -> with_args(<<"d", "o", "s", " ", "i", "n", "f", "o">>, args, <<"d", "o", "s", " ", "i", "n", "f", "o">>)
         [] cmd = <<"t", "y", "p", "e">> -> with_args(<<"d", "o", "s", " ", "t", "y", "p", "e">>, args, <<"d", "o", "s", " ", "t", "y", "p", "e">>)
         [] cmd = <<"d", "u", "m", "p">> -> with_args(<<"d", "o", "s", " ", "d", "u", "m", "p">>, args, <<"d", "o", "s", " ", "d", "u", "m", "p">>)
         [] cmd \in {<<"c", "o", "p", "y">>, <<"c", "p">>} -> with_args(<<"d", "o", "s", " ", "c", "o", "p", "y">>, args, <<"d", "o", "s", " ", "c", "o", "p", "y">>)
         [] cmd \in {<<"r", "e", "n", "a", "m", "e">>, <<"r", "e", "n">>} -> with_args(<<"d", "o", "s", " ", "r", "e", "n", "a", "m", "e">>, args, <<"d", "o", "s", " ", "r", "e", "n", "a", "m", "e">>)
         [] cmd \in {<<"d", "e", "l", "e", "t", "e">>, <<"d", "e", "l">>} -> with_args(<<"d", "o", "s", " ", "d", "e", "l", "e", "t", "e">>, args, <<"d", "o", "s", " ", "d", "e", "l", "e", "t", "e">>)
         [] cmd = <<"l", "o", "c", "k">> -> with_args(<<"d", "o", "s", " ", "l", "o", "c", "k">>, args, <<"d", "o", "s", " ", "l", "o", "c", "k">>)
         [] cmd = <<"u", "n", "l", "o", "c", "k">> -> with_args(<<"d", "o", "s", " ", "u", "n", "l", "o", "c", "k">>, args, <<"d", "o", "s", " ", "u", "n", "l", "o", "c", "k">>)
         [] cmd = <<"e", "x", "p", "o", "r", "t">> -> with_args(<<"d", "o", "s", " ", "e", "x", "p", "o", "r", "t">>, args, <<"d", "o", "s", " ", "e", "x", "p", "o", "r", "t">>)
         [] cmd = <<"i", "m", "p", "o", "r", "t">> -> with_args(<<"d", "o", "s", " ", "i", "m", "p", "o", "r", "t">>, args, <<"d", "o", "s", " ", "i", "m", "p", "o", "r", "t">>)
         [] cmd = <<"n", "e", "w", "d", "i", "s", "k">> -> with_args(<<"d", "o", "s", " ", "n", "e", "w", "d", "i", "s", "k">>, args, <<"d", "o", "s", " ", "n", "e", "w", "d", "i", "s", "k">>)
         [] cmd = <<"f", "o", "r", "m", "a", "t">> -> <<<<"d", "o", "s", " ", "f", "o", "r", "m", "a", "t">>>>
         [] OTHER -> <<line>>

\* ================================================================== repl.py
Modes == {"monitor", "basic", "basic_turbo", "dos"}

_translate_for_mode(line, m) ==
    CASE m = "monitor" -> translate_monitor(line)
      [] m \in {"basic", "basic_turbo"} -> translate_basic(line, TRUE)
      [] m = "dos" -> translate_dos(line)
      [] OTHER -> <<line>>

\* what str(exc) gives for the exception a send raised: the message of a
\* CLIConnectionError, or the ValueError text of parse_response with the
\* frame in quotes (a frame of plain characters, which repr leaves as they
\* are)
exc_text(r) ==
    IF r.kind = "ValueError"
    THEN <<"U", "n", "e", "x", "p", "e", "c", "t", "e", "d", " ", "r", "e", "s", "p", "o", "n", "s", "e", ":", " ">> \o <<"'">> \o r.payload \o <<"'">>
    ELSE r.payload

ERROR_MARKUP == <<"[", "r", "e", "d", "]", "E", "r", "r", "o", "r", ":", "[", "/", "r", "e", "d", "]", " ">>

\* a value returned to run_repl by the dot-command handlers: a dict with mode
\* and output, a str, None, the QUIT or SHUTDOWN sentinel, or an exception
\* that propagates ("raise"); shown is what the handler itself has put on the
\* screen before returning
DotResult(type, newmode, output, shown) ==
    [type |-> type, mode |-> newmode, output |-> output, shown |-> shown]

Shown(k, v) == [k |-> k, v |-> v]

\* the mode a mode-switch line maps to in a variant that takes .basic turbo
\* for plain .basic
switch_mode_turbo_is_basic(lowered) ==
    CASE lowered = <<".", "m", "o", "n", "i", "t", "o", "r">> -> "monitor"
      [] lowered \in {<<".", "b", "a", "s", "i", "c">>, <<".", "b", "a", "s", "i", "c", " ", "a", "t", "a", "r", "i">>, <<".", "b", "a", "s", "i", "c", " ", "t", "u", "r", "b", "o">>} -> "basic"
      [] lowered = <<".", "d", "o", "s">> -> "dos"
      [] OTHER -> "None"

\* the mode switches of _handle_dot_with_mode: the mode a lower-cased line
\* switches to, "None" when it is no mode switch
switch_mode(lowered) ==
    CASE lowered = <<".", "m", "o", "n", "i", "t", "o", "r">> -> "monitor"
      [] lowered \in {<<".", "b", "a", "s", "i", "c">>, <<".", "b", "a", "s", "i", "c", " ", "a", "t", "a", "r", "i">>} -> "basic"
      [] lowered = <<".", "b", "a", "s", "i", "c", " ", "t", "u", "r", "b", "o">> -> "basic_turbo"
      [] lowered = <<".", "d", "o", "s">> -> "dos"
      [] OTHER -> "None"

\* the output text of a mode switch
switch_output(newmode) ==
    CASE newmode = "monitor" -> <<"S", "w", "i", "t", "c", "h", "e", "d", " ", "t", "o", " ", "m", "o", "n", "i", "t", "o", "r", " ", "m", "o", "d", "e">>
      [] newmode = "basic" -> <<"S", "w", "i", "t", "c", "h", "e", "d", " ", "t", "o", " ", "B", "A", "S", "I", "C", " ", "m", "o", "d", "e">>
      [] newmode = "basic_turbo" -> <<"S", "w", "i", "t", "c", "h", "e", "d", " ", "t", "o", " ", "T", "u", "r", "b", "o", " ", "B", "A", "S", "I", "C", " ", "m", "o", "d", "e">>
      [] newmode = "dos" -> <<"S", "w", "i", "t", "c", "h", "e", "d", " ", "t", "o", " ", "D", "O", "S", " ", "m", "o", "d", "e">>

\* ============================================================== commands.py
\* _handle_state: the command it sends, none when it only reports usage
state_command(args) ==
    LET parts == split1(args)
        subcmd == lower(parts[1])
        path == IF Len(parts) > 1 THEN parts[2] ELSE <<>>
    IN IF args = <<>> \/ subcmd \notin {<<"s", "a", "v", "e">>, <<"l", "o", "a", "d">>} \/ path = <<>>
       THEN <<>>
       ELSE <<<<"s", "t", "a", "t", "e", " ">> \o subcmd \o <<" ">> \o path>>

\* _handle_state: its message when it sends nothing
state_usage(args) ==
    LET parts == split1(args)
        subcmd == lower(parts[1])
    IN IF args = <<>> THEN <<"[", "r", "e", "d", "]", "U", "s", "a", "g", "e", ":", " ", ".", "s", "t", "a", "t", "e", " ", "s", "a", "v", "e", "|", "l", "o", "a", "d", " ", "<", "p", "a", "t", "h", ">", "[", "/", "r", "e", "d", "]">>
       ELSE IF subcmd \notin {<<"s", "a", "v", "e">>, <<"l", "o", "a", "d">>}
            THEN <<"[", "r", "e", "d", "]", "U", "n", "k", "n", "o", "w", "n", " ", "s", "t", "a", "t", "e", " ", "s", "u", "b", "c", "o", "m", "m", "a", "n", "d", ":", " ">> \o subcmd \o <<"[", "/", "r", "e", "d", "]">>
            ELSE <<"[", "r", "e", "d", "]", "U", "s", "a", "g", "e", ":", " ", ".", "s", "t", "a", "t", "e", " ">> \o subcmd \o <<" ", "<", "p", "a", "t", "h", ">", "[", "/", "r", "e", "d", "]">>

\* the commands handle_dot_command sends for a line: one or none
dot_command(line) ==
    LET stripped == strip(line)
        lowered == lower(stripped)
        cmd == IF split1(stripped) = <<>> THEN <<>> ELSE lower(split1(stripped)[1])
        args == args_of(stripped)
    IN CASE switch_mode(lowered) # "None" -> <<>>
         [] cmd = <<".", "h", "e", "l", "p">> -> <<>>
         [] lowered = <<".", "q", "u", "i", "t">> -> <<<<"q", "u", "i", "t">>>>
         [] lowered = <<".", "s", "h", "u", "t", "d", "o", "w", "n">> -> <<<<"s", "h", "u", "t", "d", "o", "w", "n">>>>
         [] lowered = <<".", "s", "t", "a", "t", "u", "s">> -> <<<<"s", "t", "a", "t", "u", "s">>>>
         [] lowered = <<".", "s", "c", "r", "e", "e", "n">> -> <<<<"s", "c", "r", "e", "e", "n">>>>
         [] lowered = <<".", "r", "e", "s", "e", "t">> -> <<<<"r", "e", "s", "e", "t", " ", "c", "o", "l", "d">>>>
         [] lowered = <<".", "w", "a", "r", "m", "s", "t", "a", "r", "t">> -> <<<<"r", "e", "s", "e", "t", " ", "w", "a", "r", "m">>>>
         [] cmd = <<".", "s", "c", "r", "e", "e", "n", "s", "h", "o", "t">> -> <<IF args # <<>> THEN <<"s", "c", "r", "e", "e", "n", "s", "h", "o", "t", " ">> \o args ELSE <<"s", "c", "r", "e", "e", "n", "s", "h", "o", "t">>>>
         [] cmd = <<".", "b", "o", "o", "t">> -> IF args = <<>> THEN <<>> ELSE <<<<"b", "o", "o", "t", " ">> \o args>>
         [] cmd = <<".", "s", "t", "a", "t", "e">> -> state_command(args)
         [] OTHER -> <<>>

\* _send_and_format on the outcome r of its send
_send_and_format(r) ==
    IF r.kind # "response" THEN ERROR_MARKUP \o exc_text(r)
    ELSE IF ~r.success THEN ERROR_MARKUP \o r.payload
    ELSE IF r.is_multiline THEN join(<<"\n">>, split_sep(r.payload, MULTI_LINE_SEP))
    ELSE r.payload

\* send_raw inside `try: ... except CLIError: pass`: an ERR: reply is
\* swallowed, any other exception of send propagates
send_raw_result(r, sentinel) ==
    IF r.kind = "response" THEN DotResult(sentinel, "None", <<>>, <<>>)
    ELSE DotResult("raise", "None", exc_text(r), <<>>)

\* _handle_screenshot on the outcome r of its send
_handle_screenshot(r) ==
    LET payload == strip(r.payload)
        prefix == <<"s", "c", "r", "e", "e", "n", "s", "h", "o", "t", " ", "s", "a", "v", "e", "d", " ", "t", "o", " ">>
        path == IF StartsWith(lower(payload), prefix) THEN Drop(payload, Len(prefix)) ELSE payload
    IN IF r.kind # "response" THEN DotResult("str", "None", ERROR_MARKUP \o exc_text(r), <<>>)
       ELSE IF ~r.success THEN DotResult("str", "None", ERROR_MARKUP \o r.payload, <<>>)
       ELSE DotResult("None", "None", <<>>, <<Shown("image", path)>>)

\* handle_dot_command; r is the outcome of the send it makes, if it makes one
handle_dot_command(line, m, r) ==
    LET stripped == strip(line)
        lowered == lower(stripped)
        cmd == IF split1(stripped) = <<>> THEN <<>> ELSE lower(split1(stripped)[1])
        args == args_of(stripped)
    IN CASE switch_mode(lowered) # "None" ->
                DotResult("str", "None", switch_output(switch_mode(lowered)), <<>>)
         [] lowered = <<".", "h", "e", "l", "p">> -> DotResult("None", "None", <<>>, <<Shown("help", <<>>)>>)
         [] cmd = <<".", "h", "e", "l", "p">> /\ lowered # <<".", "h", "e", "l", "p">> ->
                DotResult("None", "None", <<>>, <<Shown("help", args)>>)
         [] lowered = <<".", "q", "u", "i", "t">> -> send_raw_result(r, "QUIT")
         [] lowered = <<".", "s", "h", "u", "t", "d", "o", "w", "n">> -> send_raw_result(r, "SHUTDOWN")
         [] lowered \in {<<".", "s", "t", "a", "t", "u", "s">>, <<".", "s", "c", "r", "e", "e", "n">>, <<".", "r", "e", "s", "e", "t">>, <<".", "w", "a", "r", "m", "s", "t", "a", "r", "t">>} ->
                DotResult("str", "None", _send_and_format(r), <<>>)
         [] cmd = <<".", "s", "c", "r", "e", "e", "n", "s", "h", "o", "t">> -> _handle_screenshot(r)
         [] cmd = <<".", "b", "o", "o", "t">> ->
                IF args = <<>> THEN DotResult("str", "None", <<"[", "r", "e", "d", "]", "U", "s", "a", "g", "e", ":", " ", ".", "b", "o", "o", "t", " ", "<", "p", "a", "t", "h", ">", "[", "/", "r", "e", "d", "]">>, <<>>)
                ELSE DotResult("str", "None", _send_and_format(r), <<>>)
         [] cmd = <<".", "s", "t", "a", "t", "e">> ->
                IF state_command(args) = <<>> THEN DotResult("str", "None", state_usage(args), <<>>)
                ELSE DotResult("str", "None", _send_and_format(r), <<>>)
         [] OTHER -> DotResult("str", "None", <<"[", "r", "e", "d", "]", "U", "n", "k", "n", "o", "w", "n", " ", "c", "o", "m", "m", "a", "n", "d", ":", " ">> \o stripped \o <<"[", "/", "r", "e", "d", "]">>, <<>>)

\* ================================================================== repl.py
\* _handle_dot_with_mode: the mode switches return a dict, everything else is
\* delegated to handle_dot_command
_handle_dot_with_mode(line, m, r) ==
    LET lowered == lower(strip(line))
    IN IF switch_mode(lowered) # "None"
       THEN DotResult("dict", switch_mode(lowered), switch_output(switch_mode(lowered)), <<>>)
       ELSE handle_dot_command(line, IF m = "basic_turbo" THEN "basic" ELSE m, r)

\* _end_assembly on the outcome r of its send of `assemble end`: the text it
\* returns, or none
_end_assembly(r) ==
    IF r.kind # "response" THEN <<ERROR_MARKUP \o exc_text(r)>>
    ELSE IF r.success /\ r.payload # <<>> THEN <<r.payload>>
    ELSE IF ~r.success THEN <<ERROR_MARKUP \o r.payload>>
    ELSE <<>>

\* _display_event: what is put on the screen for one event
_display_event(event) ==
    CASE event.kind = <<"b", "r", "e", "a", "k", "p", "o", "i", "n", "t">> -> <<"B", "r", "e", "a", "k", "p", "o", "i", "n", "t", " ", "h", "i", "t", ":", " ">> \o event.data
      [] event.kind = <<"s", "t", "o", "p", "p", "e", "d">> -> <<"[", "y", "e", "l", "l", "o", "w", "]", "P", "r", "o", "g", "r", "a", "m", " ", "s", "t", "o", "p", "p", "e", "d", " ", "a", "t", " ">> \o event.data \o <<"[", "/", "y", "e", "l", "l", "o", "w", "]">>
      [] event.kind = <<"e", "r", "r", "o", "r">> -> <<"[", "r", "e", "d", "]", "S", "e", "r", "v", "e", "r", " ", "e", "r", "r", "o", "r", ":", "[", "/", "r", "e", "d", "]", " ">> \o event.data
      [] OTHER -> <<"[", "d", "i", "m", "]", "E", "v", "e", "n", "t", ":", " ">> \o event.kind \o <<" ">> \o event.data \o <<"[", "/", "d", "i", "m", "]">>

\* ----------------------------------------------------------------- run_repl
\* the lines typed at the prompt
Inputs ==
    {<<".", "m", "o", "n", "i", "t", "o", "r">>,
     <<".", "b", "a", "s", "i", "c">>,
     <<".", "b", "a", "s", "i", "c", " ", "a", "t", "a", "r", "i">>,
     <<".", "b", "a", "s", "i", "c", " ", "t", "u", "r", "b", "o">>,
     <<" ", ".", "B", "a", "s", "i", "c", " ", "T", "u", "r", "b", "o", " ">>,
     <<".", "d", "o", "s">>,
     <<".", "b", "a", "s", "i", "c", " ", " ", "t", "u", "r", "b", "o">>,
     <<".", "h", "e", "l", "p">>,
     <<".", "q", "u", "i", "t">>,
     <<".", "S", "h", "u", "t", "d", "o", "w", "n">>,
     <<".", "s", "t", "a", "t", "u", "s">>,
     <<>>,
     <<".">>,
     <<"g", " ", "$", "0", "6", "0", "0">>,
     <<"a", " ", "$", "0", "6", "0", "0">>,
     <<"c", "d", " ", "2">>,
     <<"u", "n", "m", "o", "u", "n", "t", " ", "2">>,
     <<"L", "I", "S", "T">>}

\* the lines typed at the prompt of the assembly sub-mode
AsmInputs ==
    {<<>>,
     <<".">>,
     <<" ", ".">>,
     <<".", "d", "o", "s">>,
     <<".", "q", "u", "i", "t">>,
     <<"g", " ", "$", "0", "6", "0", "0">>}

\* the frames the server may answer a command of the REPL with
ReplyFrames ==
    {<<"O", "K", ":">>,
     <<"O", "K", ":", "A", "S", "M", " ", "$", "0", "6", "0", "0">>,
     <<"O", "K", ":", "D", "2", ":">>,
     <<"O", "K", ":", "D", "x", ":">>,
     <<"O", "K", ":", "a", MULTI_LINE_SEP, "$", "0", "6", "0", "2">>,
     <<"O", "K", ":", "a", MULTI_LINE_SEP, "$", "z", "z">>,
     <<"E", "R", "R", ":", "b", "a", "d">>,
     <<"?">>}

\* client.send as run_repl sees it: the reply parsed, or the exception raised.
\* A client whose read has found the peer gone fails in sendall.
SendOutcomes ==
    IF sock = NoSock THEN {ConnError(NOT_CONNECTED)}
    ELSE IF ~connected THEN {ConnError(SEND_FAILED)}
    ELSE {parse_response(f) : f \in ReplyFrames} \cup {ConnError(TIMED_OUT), ConnError(SERVER_CLOSED)}

\* the events _read_response queues while one send waits for its reply
EventBursts ==
    IF is_connected /\ nEvents < MaxEvents
    THEN {<<>>, <<parse_event(EventFrame(nEvents + 1))>>}
    ELSE {<<>>}

\* the effect of one client.send with outcome r and queued events evs on the
\* client's connection fields
ClientSends(r, evs) ==
    /\ r \in SendOutcomes /\ evs \in EventBursts
    /\ connected' = (connected /\ ~(r.kind = "CLIConnectionError" /\ r.payload # TIMED_OUT))
    /\ nEvents' = nEvents + Len(evs)
    /\ UNCHANGED <<sock, buffer>>

\* one client.send of run_repl
Sends(r, evs) == ClientSends(r, evs) /\ reply' = r

\* a variant without the finally clause
Finally_absent == UNCHANGED <<sock, buffer, connected>>

\* `finally: client.disconnect()`
Finally ==
    LET d == disconnect(ClientFields)
    IN sock' = d.sock /\ buffer' = d.buffer /\ connected' = d.connected

\* what run_repl never touches
ReplFrame ==
    UNCHANGED <<io_lock, pc, result, toServer, toClient, peer, nCalls,
                evRead, streamVars, xlatVars, modeVars, extVars>>

\* console.print(text)
Printed(text) == Shown("print", text)

\* session.prompt returns (g = "line") or raises g
ReadsInput(g, l) ==
    /\ rpc = "prompt" /\ nTurns < MaxTurns
    /\ got' = g /\ last_line' = l /\ nTurns' = nTurns + 1

\* a variant of the KeyboardInterrupt clause that leaves the assembly
\* sub-mode, as the EOFError clause does
interrupted_leaves_assembly(flag) == FALSE

\* `except KeyboardInterrupt: continue`: in_assembly at the next prompt
interrupted(flag) == flag

\* Ctrl-C at the prompt: `continue`
ReplInterrupt ==
    /\ ReadsInput("KeyboardInterrupt", <<>>)
    /\ turn' = <<>>
    /\ in_assembly' = interrupted(in_assembly)
    /\ UNCHANGED <<mode, current_drive, assembly_addr, rpc, commands, reply,
                   sock, buffer, connected, event_queue, drained, nEvents>>
    /\ ReplFrame

\* Ctrl-D at the prompt: in assembly _end_assembly and `continue`, otherwise
\* Goodbye, `break` and the finally clause
ReplEOF ==
    /\ ReadsInput("EOFError", <<>>)
    /\ IF in_assembly
       THEN /\ \E r \in SendOutcomes, evs \in EventBursts :
                 /\ Sends(r, evs)
                 /\ event_queue' = event_queue \o evs
            /\ turn' = <<Shown("send", <<"a", "s", "s", "e", "m", "b", "l", "e", " ", "e", "n", "d">>)>>
            /\ in_assembly' = FALSE
            /\ rpc' = rpc
       ELSE /\ turn' = <<Printed(<<"\n", "G", "o", "o", "d", "b", "y", "e">>)>>
            /\ rpc' = "done"
            /\ Finally
            /\ UNCHANGED <<in_assembly, event_queue, nEvents, reply>>
    /\ UNCHANGED <<mode, current_drive, assembly_addr, commands, drained>>
    /\ ReplFrame

\* a variant of the terminator test that takes only "." for the terminator
is_terminator_dot_only(trimmed) == trimmed = <<".">>

\* `not trimmed or trimmed == "."`: the line ends the assembly sub-mode
is_terminator(trimmed) == trimmed = <<>> \/ trimmed = <<".">>

\* assembly sub-mode, an empty line or ".": _end_assembly, its text printed,
\* `continue`
ReplAsmEnd(l) ==
    /\ ReadsInput("line", l)
    /\ in_assembly /\ is_terminator(strip(l))
    /\ \E r \in SendOutcomes, evs \in EventBursts :
          /\ Sends(r, evs)
          /\ event_queue' = event_queue \o evs
          /\ turn' = <<Shown("send", <<"a", "s", "s", "e", "m", "b", "l", "e", " ", "e", "n", "d">>)>>
                        \o [i \in 1..Len(_end_assembly(r)) |-> Printed(_end_assembly(r)[i])]
    /\ in_assembly' = FALSE
    /\ UNCHANGED <<mode, current_drive, assembly_addr, rpc, commands, drained>>
    /\ ReplFrame

\* a variant of the cursor update that resets the cursor to 0 on text that
\* is not hexadecimal
next_addr_zero_on_error(addr_str, addr) ==
    IF int_fails(addr_str, 16) THEN 0 ELSE int_value(addr_str, 16)

\* `try: assembly_addr = int(addr_str, 16)  except ValueError: pass`
next_addr(addr_str, addr) ==
    IF int_fails(addr_str, 16) THEN addr ELSE int_value(addr_str, 16)

\* the body of the assembly sub-mode for an instruction line, on the outcome
\* r of its send: the new cursor and what is printed
asm_input(r, addr) ==
    LET parts == rsplit1(r.payload, MULTI_LINE_SEP)
        addr_str == lstrip_char(strip(parts[2]), "$")
    IN IF r.kind # "response"
       THEN [assembly_addr |-> addr, prints |-> <<Printed(ERROR_MARKUP \o exc_text(r))>>]
       ELSE IF ~r.success
       THEN [assembly_addr |-> addr, prints |-> <<Printed(ERROR_MARKUP \o r.payload)>>]
       ELSE IF Contains(r.payload, MULTI_LINE_SEP)
       THEN [assembly_addr |-> next_addr(addr_str, addr),
             prints |-> <<Printed(parts[1])>>]
       ELSE [assembly_addr |-> addr, prints |-> <<Printed(r.payload)>>]

\* a variant that sends a line starting with "." as it is
assemble_input_dot_raw(trimmed) ==
    IF StartsWith(trimmed, <<".">>) THEN trimmed
    ELSE <<"a", "s", "s", "e", "m", "b", "l", "e", " ", "i", "n", "p", "u", "t", " ">> \o trimmed

\* f"assemble input {trimmed}"
assemble_input(trimmed) ==
    <<"a", "s", "s", "e", "m", "b", "l", "e", " ", "i", "n", "p", "u", "t", " ">> \o trimmed

\* assembly sub-mode, an instruction line: `assemble input <line>`, `continue`
ReplAsmInput(l) ==
    /\ ReadsInput("line", l)
    /\ in_assembly /\ ~is_terminator(strip(l))
    /\ \E r \in SendOutcomes, evs \in EventBursts :
          /\ Sends(r, evs)
          /\ event_queue' = event_queue \o evs
          /\ turn' = <<Shown("send", assemble_input(strip(l)))>>
                        \o asm_input(r, assembly_addr).prints
          /\ assembly_addr' = asm_input(r, assembly_addr).assembly_addr
    /\ UNCHANGED <<mode, current_drive, in_assembly, rpc, commands, drained>>
    /\ ReplFrame

\* an empty line: `continue`
ReplEmpty(l) ==
    /\ ReadsInput("line", l)
    /\ ~in_assembly /\ strip(l) = <<>>
    /\ turn' = <<>>
    /\ UNCHANGED <<mode, current_drive, in_assembly, assembly_addr, rpc, commands, reply,
                   sock, buffer, connected, event_queue, drained, nEvents>>
    /\ ReplFrame

\* what run_repl does with the value res of _handle_dot_with_mode, after the
\* sends and the output sofar of the handler
DotApply(res, sofar) ==
    /\ turn' = sofar \o res.shown \o
                 (CASE res.type \in {"QUIT", "SHUTDOWN"} -> <<Printed(<<"G", "o", "o", "d", "b", "y", "e">>)>>
                    [] res.type \in {"dict", "str"} /\ res.output # <<>> -> <<Printed(res.output)>>
                    [] OTHER -> <<>>)
    /\ mode' = IF res.type = "dict" THEN res.mode ELSE mode
    /\ rpc' = CASE res.type \in {"QUIT", "SHUTDOWN"} -> "done"
                [] res.type = "raise" -> "raised"
                [] OTHER -> rpc

\* a dot-command: _handle_dot_with_mode, then `break` on a sentinel, the mode
\* change of a dict, the text printed; `continue`
ReplDot(l) ==
    /\ ReadsInput("line", l)
    /\ ~in_assembly /\ StartsWith(strip(l), <<".">>)
    /\ IF dot_command(strip(l)) = <<>>
       THEN /\ DotApply(_handle_dot_with_mode(strip(l), mode, NoResult), <<>>)
            /\ UNCHANGED <<sock, buffer, connected, event_queue, nEvents, reply>>
       ELSE \E r \in SendOutcomes, evs \in EventBursts :
               LET res == _handle_dot_with_mode(strip(l), mode, r)
               IN /\ DotApply(res, <<Shown("send", dot_command(strip(l))[1])>>)
                  /\ event_queue' = event_queue \o evs
                  /\ nEvents' = nEvents + Len(evs)
                  /\ reply' = r
                  /\ IF res.type \in {"QUIT", "SHUTDOWN", "raise"}
                     THEN Finally
                     ELSE /\ connected' = (connected /\ ~(r.kind = "CLIConnectionError" /\ r.payload # TIMED_OUT))
                          /\ UNCHANGED <<sock, buffer>>
    /\ UNCHANGED <<current_drive, in_assembly, assembly_addr, commands, drained>>
    /\ ReplFrame

\* any other line: the commands of _translate_for_mode, about to be sent
ReplTranslate(l) ==
    /\ ReadsInput("line", l)
    /\ ~in_assembly /\ strip(l) # <<>> /\ ~StartsWith(strip(l), <<".">>)
    /\ commands' = _translate_for_mode(strip(l), mode)
    /\ rpc' = "batch"
    /\ turn' = <<>>
    /\ UNCHANGED <<mode, current_drive, in_assembly, assembly_addr, reply,
                   sock, buffer, connected, event_queue, drained, nEvents>>
    /\ ReplFrame

\* payload[1:payload.index(":")]: the text between the leading "D" and the
\* first ":" of a payload that has one
drive_text(payload) == SubSeq(payload, 2, IndexOf(payload, ":") - 1)

\* the `dos cd` tracking assigns current_drive: the command and the payload
\* have the shape and neither index nor int raises
cd_assigns(cmd, payload) ==
    /\ StartsWith(cmd, <<"d", "o", "s", " ", "c", "d", " ">>) /\ StartsWith(payload, <<"D">>)
    /\ Contains(payload, ":")
    /\ ~int_fails(drive_text(payload), 10)

\* a variant of the `dos cd` tracking that never takes the drive of the reply
cd_drive_ignores_reply(cmd, payload, drive) == drive

\* current_drive after the `dos cd` tracking of a success reply to cmd
cd_drive(cmd, payload, drive) ==
    IF cd_assigns(cmd, payload) THEN int_value(drive_text(payload), 10) ELSE drive

\* the `unmount` tracking assigns current_drive = 1: the drive named in the
\* command is the current one
unmount_assigns(cmd, drive) ==
    /\ StartsWith(cmd, <<"u", "n", "m", "o", "u", "n", "t", " ">>)
    /\ Len(split(cmd)) >= 2
    /\ ~int_fails(split(cmd)[2], 10)
    /\ int_value(split(cmd)[2], 10) = drive

\* current_drive after the `unmount` tracking of a success reply to cmd
unmount_drive(cmd, drive) == IF unmount_assigns(cmd, drive) THEN 1 ELSE drive

\* a variant in which any success reply takes the REPL back to drive 1
track_drive_resets(cmd, payload, drive) == IF drive # 1 THEN 1 ELSE cd_drive(cmd, payload, drive)

\* current_drive after a success reply to cmd: the `dos cd` tracking, then the
\* `unmount` tracking
track_drive(cmd, payload, drive) == unmount_drive(cmd, cd_drive(cmd, payload, drive))

\* the assignments to current_drive the two trackings make, in order
drive_assigns(cmd, payload, drive) ==
    (IF cd_assigns(cmd, payload) THEN <<Shown("current_drive", drive_text(payload))>> ELSE <<>>)
    \o (IF unmount_assigns(cmd, cd_drive(cmd, payload, drive))
        THEN <<Shown("current_drive", <<"1">>)>> ELSE <<>>)

\* a variant of the loop in which an exception does not end the batch
breaks_loop_never(r) == FALSE

\* `except Exception as exc: ... break`: the send raised
breaks_loop(r) == r.kind # "response"

\* the body of `for cmd in commands` on the outcome r of its send: the new
\* locals, what is printed, and whether the loop is left with `break`
batch_step(cmd, r, drive, asm, addr) ==
    LET entered == IF int_fails(strip(Drop(r.payload, 5)), 16) THEN 0
                   ELSE int_value(strip(Drop(r.payload, 5)), 16)
        parts == split_sep(r.payload, MULTI_LINE_SEP)
    IN IF r.kind # "response"
       THEN [current_drive |-> drive, in_assembly |-> asm, assembly_addr |-> addr, brk |-> breaks_loop(r),
             prints |-> <<Printed(ERROR_MARKUP \o exc_text(r))>>]
       ELSE IF ~r.success
       THEN [current_drive |-> drive, in_assembly |-> asm, assembly_addr |-> addr, brk |-> FALSE,
             prints |-> <<Printed(ERROR_MARKUP \o r.payload)>>]
       ELSE IF StartsWith(r.payload, <<"A", "S", "M", " ", "$">>)
       THEN [current_drive |-> drive, in_assembly |-> TRUE, assembly_addr |-> entered, brk |-> FALSE,
             prints |-> <<Printed(<<"[", "d", "i", "m", "]", "E", "n", "t", "e", "r", "i", "n", "g", " ", "a", "s", "s", "e", "m", "b", "l", "y", " ", "m", "o", "d", "e", " ", "a", "t", " ", "$">> \o format_04X(entered)
                                  \o <<".", " ", "T", "y", "p", "e", " ", "'", ".", "'", " ", "o", "r", " ", "e", "m", "p", "t", "y", " ", "l", "i", "n", "e", " ", "t", "o", " ", "e", "x", "i", "t", ".", "[", "/", "d", "i", "m", "]">>)>>]
       ELSE [current_drive |-> track_drive(cmd, r.payload, drive),
             in_assembly |-> asm, assembly_addr |-> addr, brk |-> FALSE,
             prints |-> drive_assigns(cmd, r.payload, drive)
                        \o (IF r.payload = <<>> THEN <<>>
                            ELSE [i \in 1..Len(parts) |-> Printed(parts[i])])]

\* one round of `for cmd in commands`: the send and what follows from its
\* outcome; when the loop ends, by `break` or after the last command, the
\* events are drained and displayed and the prompt is next
ReplBatchSend ==
    /\ rpc = "batch"
    /\ \E r \in SendOutcomes, evs \in EventBursts :
          LET cmd == Head(commands)
              st == batch_step(cmd, r, current_drive, in_assembly, assembly_addr)
              queued == event_queue \o evs
              sofar == turn \o <<Shown("send", cmd)>> \o st.prints
          IN /\ Sends(r, evs)
             /\ current_drive' = st.current_drive
             /\ in_assembly' = st.in_assembly
             /\ assembly_addr' = st.assembly_addr
             /\ IF st.brk \/ Tail(commands) = <<>>
                THEN /\ turn' = sofar \o [i \in 1..Len(queued) |-> Printed(_display_event(queued[i]))]
                     /\ event_queue' = <<>>
                     /\ drained' = drained \o queued
                     /\ commands' = <<>>
                     /\ rpc' = "prompt"
                ELSE /\ turn' = sofar
                     /\ event_queue' = queued
                     /\ commands' = Tail(commands)
                     /\ UNCHANGED <<drained, rpc>>
    /\ UNCHANGED <<mode, got, last_line, nTurns>>
    /\ ReplFrame

\* run_repl is entered with a connected client
\* the client after a successful connect, as main hands it to the REPL
ClientReady ==
    /\ sock = Open /\ buffer = <<>> /\ connected = TRUE /\ event_queue = <<>>
    /\ io_lock = 0
    /\ pc = [t \in Threads |-> "idle"]
    /\ result = [t \in Threads |-> NoResult]
    /\ toServer = <<>> /\ toClient = <<>> /\ peer = "up"
    /\ nCalls = 1 /\ nEvents = 0
    /\ evRead = <<>> /\ drained = <<>>

ReplInit ==
    /\ ClientReady
    /\ StreamIdle /\ ReplStart /\ XlatIdle /\ ModeStart /\ ExtIdle

ReplNext ==
    \/ ReplInterrupt
    \/ ReplEOF
    \/ \E l \in AsmInputs : ReplAsmEnd(l)
    \/ \E l \in AsmInputs : ReplAsmInput(l)
    \/ \E l \in Inputs : ReplEmpty(l)
    \/ \E l \in Inputs : ReplDot(l)
    \/ \E l \in Inputs : ReplTranslate(l)
    \/ ReplBatchSend

SpecRepl == ReplInit /\ [][ReplNext]_vars

\* ------------------------------------------------------------ DosMode
\* the lines handed to DosMode.handle
DosInputs ==
    {<<"c", "d", " ", "2">>,
     <<"u", "n", "m", "o", "u", "n", "t", " ", "2">>,
     <<"u", "n", "m", "o", "u", "n", "t", " ", "1">>,
     <<"d", "i", "r">>}

\* the body of `for cmd in commands` in DosMode.handle on the outcome r of
\* its send: the new current_drive, what is appended to results, and whether
\* the loop is left with `break`
dos_step(cmd, r, drive) ==
    IF r.kind # "response"
    THEN [current_drive |-> drive, results |-> <<ERROR_MARKUP \o exc_text(r)>>, brk |-> TRUE]
    ELSE IF ~r.success
    THEN [current_drive |-> drive, results |-> <<ERROR_MARKUP \o r.payload>>, brk |-> TRUE]
    ELSE IF r.payload = <<>>
    THEN [current_drive |-> drive, results |-> <<>>, brk |-> FALSE]
    ELSE [current_drive |-> unmount_drive(cmd, cd_drive(cmd, r.payload, drive)),
          results |-> <<replace(r.payload, MULTI_LINE_SEP, <<"\n">>)>>,
          brk |-> FALSE]

\* what the handlers of the modes never touch
ModeFrame ==
    UNCHANGED <<io_lock, pc, result, toServer, toClient, peer, nCalls, evRead, drained,
                streamVars, replVars, xlatVars, extVars>>

\* DosMode.handle is called with a line: translate_dos, results = []
DosHandleBegin(l) ==
    /\ h_pc = "idle" /\ nHandles < MaxHandles
    /\ h_cmds' = translate_dos(l)
    /\ h_results' = <<>> /\ h_sent' = <<>> /\ h_return' = <<>>
    /\ h_pc' = "loop"
    /\ nHandles' = nHandles + 1
    /\ UNCHANGED <<h_drive, h_reply, sock, buffer, connected, event_queue, nEvents>>
    /\ ModeFrame

\* one round of `for cmd in commands` in DosMode.handle; when the loop ends,
\* by `break` or after the last command, handle returns the results joined
\* by newlines, or None when there are none
DosHandleSend ==
    /\ h_pc = "loop"
    /\ \E r \in SendOutcomes, evs \in EventBursts :
          LET cmd == Head(h_cmds)
              st == dos_step(cmd, r, h_drive)
              results == h_results \o st.results
          IN /\ ClientSends(r, evs)
             /\ event_queue' = event_queue \o evs
             /\ h_reply' = r
             /\ h_sent' = Append(h_sent, cmd)
             /\ h_drive' = st.current_drive
             /\ h_results' = results
             /\ IF st.brk \/ Tail(h_cmds) = <<>>
                THEN /\ h_cmds' = <<>>
                     /\ h_pc' = "idle"
                     /\ h_return' = IF results = <<>> THEN <<>> ELSE <<join(<<"\n">>, results)>>
                ELSE /\ h_cmds' = Tail(h_cmds)
                     /\ UNCHANGED <<h_pc, h_return>>
    /\ UNCHANGED nHandles
    /\ ModeFrame

\* a DosMode object and a connected client
ModesInit ==
    /\ ClientReady
    /\ StreamIdle /\ ReplStart /\ XlatIdle /\ ModeStart /\ ExtIdle

ModesNext ==
    \/ \E l \in DosInputs : DosHandleBegin(l)
    \/ DosHandleSend

SpecModes == ModesInit /\ [][ModesNext]_vars

\* ------------------------------------------------------- the translators
\* first words of the lines handed to the translators
TranslateTokens ==
    {<<"g">>,
     <<"G">>,
     <<"s">>,
     <<"p">>,
     <<"p", "a", "u", "s", "e">>,
     <<"u", "n", "t", "i", "l">>,
     <<"r">>,
     <<"m">>,
     <<">">>,
     <<"f">>,
     <<"d">>,
     <<"a">>,
     <<"b">>,
     <<"b", "p">>,
     <<"b", "c">>,
     <<"b", "l">>,
     <<"x">>,
     <<"L", "I", "S", "T">>,
     <<"c", "d">>,
     <<"1", "0">>}

\* what follows the first word: nothing, or white space and the arguments
TranslateArgs ==
    {<<>>,
     <<" ", "$", "E", "0", "0", "0">>,
     <<" ", " ", "$", "e", "0", "0", "0", " ", "1">>,
     <<" ", "*">>,
     <<" ", "a", "\t", "b", "\\", "n">>,
     <<" ", "1", "\r", "\n", "2">>}

\* the lines handed to the translators: trimmed and not empty
TranslateLines == {tok \o a : tok \in TranslateTokens, a \in TranslateArgs}

\* a line and the translator it is about to be handed to
XlatInit ==
    /\ ClientNew
    /\ StreamIdle /\ ReplStart /\ ModeStart /\ ExtIdle
    /\ t_mode \in {"monitor", "basic", "dos"}
    /\ t_line \in TranslateLines
    /\ t_out = <<>>

\* what a call of a translator leaves alone
XlatFrame == UNCHANGED <<t_mode, t_line, connVars, streamVars, replVars, modeVars, extVars>>

TranslateMonitor ==
    /\ t_mode = "monitor" /\ t_out = <<>>
    /\ t_out' = translate_monitor(t_line)
    /\ XlatFrame

TranslateBasic ==
    /\ t_mode = "basic" /\ t_out = <<>>
    /\ t_out' = translate_basic(t_line, TRUE)
    /\ XlatFrame

TranslateDos ==
    /\ t_mode = "dos" /\ t_out = <<>>
    /\ t_out' = translate_dos(t_line)
    /\ XlatFrame

XlatNext == TranslateMonitor \/ TranslateBasic \/ TranslateDos

SpecTranslate == XlatInit /\ [][XlatNext]_vars

\* ======================================================= discover_socket
\* the decimal text of a process id
pid_text(p) == <<HexDigits[p + 1]>>

\* the names (the part between `attic-` and `.sock`) a file may have
SocketNames == {pid_text(1), pid_text(2), <<"x">>}

\* the directory holds a file of that name
has_file(dir, name) == \E i \in 1..Len(dir) : dir[i].name = name

\* os.kill(pid, 0)
os_kill(pid) ==
    CASE d_proc[pid] = "running" -> "ok"
      [] d_proc[pid] = "foreign" -> "PermissionError"
      [] OTHER -> "ProcessLookupError"

\* a variant of _pid_alive that takes every process for alive
_pid_alive_always(pid) == TRUE

_pid_alive(pid) == os_kill(pid) # "ProcessLookupError"

\* os.unlink(path): the file is removed unless it is gone already or belongs
\* to another user (the sticky bit of /tmp); both raise OSError
unlink_fails(dir, name) == ~\E i \in 1..Len(dir) : dir[i].name = name /\ dir[i].owned
unlink(dir, name) == SelectSeq(dir, LAMBDA f : f.name # name)

\* os.path.getmtime(path)
getmtime_fails(dir, name) == ~has_file(dir, name)
getmtime(dir, name) == dir[CHOOSE i \in 1..Len(dir) : dir[i].name = name].mtime

\* the order of two path names that differ only in the pid part: the
\* character after a shorter pid is the `.` of `.sock`, which sorts before
\* every digit and letter
CharRank(c) == IF c = "." THEN 0 ELSE IF HexDigitValue(c) >= 0 THEN 1 + HexDigitValue(c) ELSE 99
RECURSIVE PathLess(_, _)
PathLess(a, b) ==
    LET x == a \o <<".">>
        y == b \o <<".">>
    IN IF x[1] # y[1] THEN CharRank(x[1]) < CharRank(y[1])
       ELSE Len(a) > 0 /\ Len(b) > 0 /\ PathLess(Tail(a), Tail(b))

\* attic_cli: candidates.sort(reverse=True); candidates[0][1]
first_sorted_cli(cands) ==
    cands[CHOOSE i \in 1..Len(cands) : \A j \in 1..Len(cands) :
              \/ cands[j][1] < cands[i][1]
              \/ cands[j][1] = cands[i][1] /\ ~PathLess(cands[i][2], cands[j][2])][2]

\* attic_mcp: candidates.sort(key=lambda t: t[0], reverse=True); candidates[0][1]
\* (the sort is stable: of equal times the one scanned first stays first)
first_sorted_mcp(cands) ==
    cands[CHOOSE i \in 1..Len(cands) :
              /\ \A j \in 1..Len(cands) : cands[j][1] <= cands[i][1]
              /\ \A j \in 1..(i - 1) : cands[j][1] < cands[i][1]][2]

\* what the discover_socket calls and the servers leave alone
DiscFrame == UNCHANGED <<connVars, streamVars, replVars, xlatVars, modeVars, toolVars, wireVars>>

\* discover_socket is called: glob.glob(pattern), candidates = []
DiscoverBegin ==
    /\ d_pc = "idle" /\ nScans < MaxScans
    /\ d_pc' = "scan" /\ nScans' = nScans + 1
    /\ d_todo' = [i \in 1..Len(d_dir) |-> d_dir[i].name]
    /\ d_cands' = <<>> /\ d_unlinks' = <<>>
    /\ d_start' = d_epoch
    /\ UNCHANGED <<d_variant, d_dir, d_proc, d_ret, d_epoch>>
    /\ DiscFrame

\* one pass of `for path in glob.glob(pattern)`
DiscoverStep ==
    /\ d_pc = "scan" /\ d_todo # <<>>
    /\ LET pid_str == Head(d_todo)
       IN IF int_fails(pid_str, 10)
          THEN \* except ValueError: continue
               /\ d_todo' = Tail(d_todo)
               /\ UNCHANGED <<d_dir, d_cands, d_unlinks, d_ret, d_pc>>
          ELSE IF ~_pid_alive(int_value(pid_str, 10))
          THEN \* os.unlink(path), OSError ignored
               /\ d_dir' = IF unlink_fails(d_dir, pid_str) THEN d_dir ELSE unlink(d_dir, pid_str)
               /\ d_unlinks' = Append(d_unlinks, pid_str)
               /\ d_todo' = Tail(d_todo)
               /\ UNCHANGED <<d_cands, d_ret, d_pc>>
          ELSE IF getmtime_fails(d_dir, pid_str)
          THEN IF d_variant = "mcp"
               THEN \* except OSError: continue
                    /\ d_todo' = Tail(d_todo)
                    /\ UNCHANGED <<d_dir, d_cands, d_unlinks, d_ret, d_pc>>
               ELSE \* attic_cli: the OSError leaves discover_socket
                    /\ d_todo' = <<>> /\ d_cands' = <<>> /\ d_pc' = "idle"
                    /\ d_ret' = [kind |-> "OSError", path |-> pid_str, began |-> d_start]
                    /\ UNCHANGED <<d_dir, d_unlinks>>
          ELSE /\ d_cands' = Append(d_cands, <<getmtime(d_dir, pid_str), pid_str>>)
               /\ d_todo' = Tail(d_todo)
               /\ UNCHANGED <<d_dir, d_unlinks, d_ret, d_pc>>
    /\ UNCHANGED <<d_variant, d_proc, d_epoch, d_start, nScans>>
    /\ DiscFrame

\* after the loop: None, or the first candidate of the sorted list
DiscoverEnd ==
    /\ d_pc = "scan" /\ d_todo = <<>>
    /\ d_pc' = "idle"
    /\ d_ret' = IF d_cands = <<>> THEN [kind |-> "None", path |-> <<>>, began |-> d_start]
                 ELSE [kind |-> "path", began |-> d_start,
                       path |-> IF d_variant = "cli" THEN first_sorted_cli(d_cands)
                                ELSE first_sorted_mcp(d_cands)]
    /\ d_cands' = <<>>
    /\ UNCHANGED <<d_variant, d_dir, d_proc, d_todo, d_unlinks, d_epoch, d_start, nScans>>
    /\ DiscFrame

\* a server that shuts down removes its endpoint (and exits after that)
ServerRemovesEndpoint(p) ==
    /\ d_epoch < MaxEnv
    /\ d_proc[p] # "gone" /\ has_file(d_dir, pid_text(p))
    /\ d_dir' = unlink(d_dir, pid_text(p))
    /\ d_epoch' = d_epoch + 1
    /\ UNCHANGED <<d_variant, d_proc, d_pc, d_todo, d_cands, d_unlinks, d_ret, d_start, nScans>>
    /\ DiscFrame

\* a server process ends
ServerExits(p) ==
    /\ d_epoch < MaxEnv
    /\ d_proc[p] # "gone"
    /\ d_proc' = [d_proc EXCEPT ![p] = "gone"]
    /\ d_epoch' = d_epoch + 1
    /\ UNCHANGED <<d_variant, d_dir, d_pc, d_todo, d_cands, d_unlinks, d_ret, d_start, nScans>>
    /\ DiscFrame

\* the modification times of the files
Mtimes == {1, 2}

\* directories of at most MaxFiles files with distinct names
Directories ==
    {dir \in UNION {[1..k -> [name : SocketNames, mtime : Mtimes, owned : BOOLEAN]] : k \in 0..MaxFiles} :
        \A i, j \in 1..Len(dir) : i # j => dir[i].name # dir[j].name}

DiscoverInit ==
    /\ ClientNew
    /\ StreamIdle /\ ReplStart /\ XlatIdle /\ ModeStart /\ ToolsIdle /\ WireIdle
    /\ d_variant \in {"cli", "mcp"}
    /\ d_dir \in Directories
    /\ d_proc \in [Pids -> {"running", "foreign", "gone"}]
    /\ d_pc = "idle" /\ d_todo = <<>> /\ d_cands = <<>> /\ d_unlinks = <<>>
    /\ d_ret = NoReturn /\ d_epoch = 0 /\ d_start = 0 /\ nScans = 0

DiscoverNext ==
    \/ DiscoverBegin
    \/ DiscoverStep
    \/ DiscoverEnd
    \/ \E p \in Pids : ServerRemovesEndpoint(p)
    \/ \E p \in Pids : ServerExits(p)

SpecDiscover == DiscoverInit /\ [][DiscoverNext]_vars

\* ============================================ attic_mcp: client and tools
\* f"{b:02X}"
format_02X(b) == IF b < 16 THEN <<"0">> \o HexOf(b) ELSE HexOf(b)

\* parse_hex_bytes: the tokens of the data string
hex_parts(data) == split(replace(replace(data, "$", <<>>), ",", <<" ">>))

\* a variant of parse_hex_bytes that accepts a string without a token
parse_hex_bytes_fails_allows_empty(data) ==
    LET parts == hex_parts(data)
    IN \E i \in 1..Len(parts) :
           \/ int_fails(parts[i], 16)
           \/ ~(0 <= int_value(parts[i], 16) /\ int_value(parts[i], 16) <= 255)

\* parse_hex_bytes raises ValueError
parse_hex_bytes_fails(data) ==
    LET parts == hex_parts(data)
    IN \/ \E i \in 1..Len(parts) :
              \/ int_fails(parts[i], 16)
              \/ ~(0 <= int_value(parts[i], 16) /\ int_value(parts[i], 16) <= 255)
       \/ parts = <<>>

\* parse_hex_bytes when it does not raise
parse_hex_bytes(data) ==
    LET parts == hex_parts(data)
    IN [i \in 1..Len(parts) |-> int_value(parts[i], 16)]

\* the payloads of the success replies the tools receive
ToolPayloads == {<<"l">>, <<"l", MULTI_LINE_SEP, "n">>}

ToolRaise(exc) == [kind |-> "raise", value |-> exc]
ToolReturn(text) == [kind |-> "return", value |-> text]

\* attic_mcp CLISocketClient.send on an open socket, the server sending no
\* event: the commands written, the socket afterwards and the payload
\* returned or the exception raised (sendall fails, the read fails, the read
\* times out)
mcp_send(cmd) ==
    {[frames |-> <<cmd>>, sock |-> "Open", res |-> ToolReturn(p)] : p \in ToolPayloads}
    \cup {[frames |-> <<cmd>>, sock |-> "Open", res |-> ToolRaise("CLIError")],
          [frames |-> <<>>, sock |-> "None", res |-> ToolRaise("CLIConnectionError")],
          [frames |-> <<cmd>>, sock |-> "None", res |-> ToolRaise("CLIConnectionError")],
          [frames |-> <<cmd>>, sock |-> "Open", res |-> ToolRaise("CLIConnectionError")]}

\* _ensure_connected, called without a socket: discover_socket finds no
\* path (RuntimeError), connect fails before or in the ping handshake
\* (CLIConnectionError), or the client is connected
_ensure_connected ==
    {[frames |-> <<>>, sock |-> "None", connects |-> 0, exc |-> "RuntimeError"],
     [frames |-> <<>>, sock |-> "None", connects |-> 1, exc |-> "CLIConnectionError"],
     [frames |-> <<Ping>>, sock |-> "None", connects |-> 1, exc |-> "CLIConnectionError"],
     [frames |-> <<Ping>>, sock |-> "Open", connects |-> 1, exc |-> ""]}

\* _send(command): connect if needed, send, and on CLIConnectionError
\* disconnect, connect again and send once more
_send(sk, cmd) ==
    LET first == IF sk = "None" THEN _ensure_connected
                 ELSE {[frames |-> <<>>, sock |-> "Open", connects |-> 0, exc |-> ""]}
        again(e, o) ==
            UNION {IF e2.exc # ""
                   THEN {[frames |-> e.frames \o o.frames \o e2.frames, sock |-> "None",
                          connects |-> e.connects + e2.connects, res |-> ToolRaise(e2.exc)]}
                   ELSE {[frames |-> e.frames \o o.frames \o e2.frames \o o2.frames, sock |-> o2.sock,
                          connects |-> e.connects + e2.connects, res |-> o2.res] : o2 \in mcp_send(cmd)}
                   : e2 \in _ensure_connected}
        once(e) ==
            UNION {IF o.res = ToolRaise("CLIConnectionError") THEN again(e, o)
                   ELSE {[frames |-> e.frames \o o.frames, sock |-> o.sock,
                          connects |-> e.connects, res |-> o.res]}
                   : o \in mcp_send(cmd)}
    IN UNION {IF e.exc # ""
              THEN {[frames |-> e.frames, sock |-> e.sock, connects |-> e.connects, res |-> ToolRaise(e.exc)]}
              ELSE once(e) : e \in first}

\* what the tools leave alone
ToolFrame == UNCHANGED <<connVars, streamVars, replVars, xlatVars, modeVars, discVars, wireVars>>

\* a tool call begins
ToolBegins(name) ==
    /\ m_pc = "idle" /\ nTools < MaxTools
    /\ m_tool' = name /\ nTools' = nTools + 1

\* the call's _send(cmd) ends with outcome o
Sent(cmd, o, before) ==
    /\ m_cmds' = Append(IF before THEN m_cmds ELSE <<>>, cmd)
    /\ m_wire' = (IF before THEN m_wire ELSE <<>>) \o o.frames
    /\ m_connects' = (IF before THEN m_connects ELSE 0) + o.connects
    /\ m_sock' = o.sock

\* f"write ${address:04X} {hex_str}"
write_command(address, data) ==
    LET bytes_list == parse_hex_bytes(data)
    IN <<"w", "r", "i", "t", "e", " ", "$">> \o format_04X(address) \o <<" ">>
          \o join(<<",">>, [i \in 1..Len(bytes_list) |-> format_02X(bytes_list[i])])

\* emulator_write_memory(address, data)
WriteMemory(address, data) ==
    /\ ToolBegins("emulator_write_memory")
    /\ m_data' = data
    /\ IF parse_hex_bytes_fails(data)
       THEN /\ m_result' = ToolRaise("ValueError")
            /\ m_cmds' = <<>> /\ m_wire' = <<>> /\ m_connects' = 0
            /\ UNCHANGED m_sock
       ELSE LET cmd == write_command(address, data)
            IN \E o \in _send(m_sock, cmd) :
                  /\ Sent(cmd, o, FALSE)
                  /\ m_result' = o.res
    /\ UNCHANGED <<m_pc, m_instrs, m_lines, m_exc>>
    /\ ToolFrame

ASSEMBLE_END == <<"a", "s", "s", "e", "m", "b", "l", "e", " ", "e", "n", "d">>

\* a variant of the except clause that sends another command
cleanup_command_status == <<"s", "t", "a", "t", "u", "s">>

\* the command the except clause of emulator_assemble_block sends
cleanup_command == ASSEMBLE_END

\* emulator_assemble_block(address, instructions): _send(f"assemble ${address:04X}")
AsmBlockStart(address, instructions) ==
    /\ ToolBegins("emulator_assemble_block")
    /\ LET cmd == <<"a", "s", "s", "e", "m", "b", "l", "e", " ", "$">> \o format_04X(address)
       IN \E o \in _send(m_sock, cmd) :
          /\ Sent(cmd, o, FALSE)
          /\ IF o.res.kind = "return"
             THEN /\ m_pc' = "input" /\ m_instrs' = instructions
                  /\ m_result' = NoToolResult
             ELSE /\ m_pc' = "idle" /\ m_instrs' = <<>>
                  /\ m_result' = o.res
    /\ m_lines' = <<>> /\ m_exc' = "" /\ m_data' = <<>>
    /\ ToolFrame

\* `result.split(MULTI_LINE_SEP)[0] if MULTI_LINE_SEP in result else result`
assembled_line(text) ==
    IF Contains(text, MULTI_LINE_SEP) THEN split_sep(text, MULTI_LINE_SEP)[1] ELSE text

\* one pass of `for instr in instructions`
AsmBlockInput ==
    /\ m_pc = "input"
    /\ LET cmd == <<"a", "s", "s", "e", "m", "b", "l", "e", " ", "i", "n", "p", "u", "t", " ">> \o Head(m_instrs)
       IN \E o \in _send(m_sock, cmd) :
          /\ Sent(cmd, o, TRUE)
          /\ IF o.res.kind = "return"
             THEN /\ m_lines' = Append(m_lines, assembled_line(o.res.value))
                  /\ m_instrs' = Tail(m_instrs)
                  /\ m_pc' = IF Tail(m_instrs) = <<>> THEN "end" ELSE "input"
                  /\ UNCHANGED m_exc
             ELSE /\ m_pc' = "cleanup" /\ m_exc' = o.res.value
                  /\ UNCHANGED <<m_lines, m_instrs>>
    /\ UNCHANGED <<m_tool, m_data, m_result, nTools>>
    /\ ToolFrame

\* `except Exception:` the end command is sent, what it raises is dropped,
\* and the exception is raised again
AsmBlockCleanup ==
    /\ m_pc = "cleanup"
    /\ \E o \in _send(m_sock, cleanup_command) : Sent(cleanup_command, o, TRUE)
    /\ m_result' = ToolRaise(m_exc)
    /\ m_pc' = "idle"
    /\ UNCHANGED <<m_tool, m_data, m_instrs, m_lines, m_exc, nTools>>
    /\ ToolFrame

\* after the loop: summary = _send("assemble end"), the lines and the
\* summary are returned
AsmBlockEnd ==
    /\ m_pc = "end"
    /\ \E o \in _send(m_sock, ASSEMBLE_END) :
          /\ Sent(ASSEMBLE_END, o, TRUE)
          /\ m_result' = IF o.res.kind = "return"
                         THEN ToolReturn(join(<<"\n">>, m_lines) \o <<"\n">> \o o.res.value)
                         ELSE o.res
    /\ m_pc' = "idle"
    /\ UNCHANGED <<m_tool, m_data, m_instrs, m_lines, m_exc, nTools>>
    /\ ToolFrame

\* data strings handed to emulator_write_memory
WriteData ==
    {<<>>, <<",">>, <<"A", "9">>, <<"$", "A", "9", ",", "0", "0">>,
     <<"G", "G">>, <<"1", "0", "0">>, <<"A", "9", " ", "1", "F", "F">>, <<"-", "1">>}

\* instruction lists handed to emulator_assemble_block (min_length=1)
BlockInputs == {<<<<"R", "T", "S">>>>, <<<<"L", "D", "A", " ", "#", "0">>, <<"R", "T", "S">>>>}

\* the MCP server after import: the client is not connected
ToolsStart ==
    /\ m_sock = "None" /\ m_wire = <<>> /\ m_connects = 0
    /\ m_tool = "none" /\ m_data = <<>> /\ m_pc = "idle" /\ m_instrs = <<>> /\ m_cmds = <<>>
    /\ m_lines = <<>> /\ m_exc = "" /\ m_result = NoToolResult /\ nTools = 0

\* run_repl is not running
ReplOff ==
    /\ mode = "basic" /\ current_drive = 1 /\ in_assembly = FALSE /\ assembly_addr = 0
    /\ rpc = "done" /\ got = "none" /\ last_line = <<>> /\ commands = <<>> /\ turn = <<>>
    /\ reply = NoResult /\ nTurns = 0

ToolsInit ==
    /\ ClientNew
    /\ StreamIdle /\ ReplOff /\ XlatIdle /\ ModeStart /\ DiscIdle /\ WireIdle
    /\ ToolsStart

\* the steps of emulator_assemble_block
BlockNext ==
    \/ \E instructions \in BlockInputs : AsmBlockStart(1536, instructions)
    \/ AsmBlockInput
    \/ AsmBlockCleanup
    \/ AsmBlockEnd

ToolsNext ==
    \/ \E data \in WriteData : WriteMemory(1536, data)
    \/ BlockNext

SpecTools == ToolsInit /\ [][ToolsNext]_vars

\* the REPL of attic_cli or emulator_assemble_block of attic_mcp, each with
\* its own client
SessionsInit == ReplInit \/ ToolsInit

SessionsNext == ReplNext \/ BlockNext

SpecSessions == SessionsInit /\ [][SessionsNext]_vars

\* ------------------------------------- attic_mcp: _send, statement by statement
\* The tool handlers are coroutines on one event loop; every call of the
\* client goes through asyncio.to_thread, so two tool calls can be inside
\* _client.send, _client.connect or _client.discover_socket at the same
\* time, each in its own worker thread, on the one module-level _client.
\* The client has no lock.  Each statement of the client that touches the
\* socket or the buffer is one step.

WireRaised(exc) == [kind |-> "raise", value |-> <<exc>>]
WireReturned(payload) == [kind |-> "return", value |-> payload]

\* _client._sock and _client._buffer
WireFields == [sock |-> w_sock, buffer |-> w_buffer]

\* attic_mcp CLISocketClient.disconnect: only a client that has a socket is
\* changed
mcp_disconnect(f) == IF f.sock # "None" THEN [sock |-> "None", buffer |-> <<>>] ELSE f

\* the fields are assigned; closing the socket discards what is in flight
AssignFields(f) ==
    /\ w_sock' = f.sock /\ w_buffer' = f.buffer
    /\ IF f.sock = "None" /\ w_sock # "None"
       THEN w_toServer' = <<>> /\ w_toClient' = <<>> /\ w_peer' = "up"
       ELSE UNCHANGED <<w_toServer, w_toClient, w_peer>>

WireFrame == UNCHANGED <<connVars, streamVars, replVars, xlatVars, modeVars, discVars, toolVars>>

\* _send is left: the value is returned or the exception reaches the tool
WireEnds(k, ret, did) ==
    /\ w_pc' = [w_pc EXCEPT ![k] = "done"]
    /\ w_ret' = [w_ret EXCEPT ![k] = ret]
    /\ w_trace' = [w_trace EXCEPT ![k] = @ \o did]
    /\ UNCHANGED <<w_cmd, w_ping, w_again>>

\* `except CLIConnectionError:` of _send, around the first send only
retried_any(exc, again) == ~again
retried(exc, again) == exc = "CLIConnectionError" /\ ~again

\* the send of call k raises exc, the client's fields being f by then.
\* Inside connect every exception is answered by disconnect() and raised
\* as CLIConnectionError, which leaves _send (the handshake is outside the
\* try, or inside the except clause).  A CLIConnectionError of the first
\* send is answered by _client.disconnect() and _ensure_connected().
\* Everything else is propagated.
WireRaises(k, exc, f) ==
    IF w_ping[k]
    THEN /\ AssignFields(mcp_disconnect(f))
         /\ WireEnds(k, WireRaised("CLIConnectionError"),
                     <<Shown("raise", <<exc>>), Shown("disconnect", <<>>), Shown("raise", <<"CLIConnectionError">>)>>)
    ELSE IF retried(exc, w_again[k])
    THEN /\ AssignFields(mcp_disconnect(f))
         /\ w_pc' = [w_pc EXCEPT ![k] = "discover"]
         /\ w_again' = [w_again EXCEPT ![k] = TRUE]
         /\ w_trace' = [w_trace EXCEPT ![k] = @ \o <<Shown("raise", <<exc>>), Shown("disconnect", <<>>)>>]
         /\ UNCHANGED <<w_cmd, w_ping, w_ret>>
    ELSE /\ AssignFields(f)
         /\ WireEnds(k, WireRaised(exc), <<Shown("raise", <<exc>>)>>)

\* the send of call k returns payload.  In connect the payload must be
\* pong, and then _send goes on to send the tool's command.
WireReturns(k, payload, f) ==
    IF w_ping[k]
    THEN IF payload = Pong
         THEN /\ AssignFields(f)
              /\ w_pc' = [w_pc EXCEPT ![k] = "write"]
              /\ w_cmd' = [w_cmd EXCEPT ![k] = Cmd(k)]
              /\ w_ping' = [w_ping EXCEPT ![k] = FALSE]
              /\ w_trace' = [w_trace EXCEPT ![k] = Append(@, Shown("connected", <<>>))]
              /\ UNCHANGED <<w_again, w_ret>>
         ELSE WireRaises(k, "CLIConnectionError", f)
    ELSE /\ AssignFields(f)
         /\ WireEnds(k, WireReturned(payload), <<Shown("return", payload)>>)

\* a tool awaits _send(command): `if not _client.is_connected`
WireCall(k) ==
    /\ w_pc[k] \in {"idle", "done"} /\ nWire < MaxWireCalls
    /\ nWire' = nWire + 1
    /\ w_pc' = [w_pc EXCEPT ![k] = IF w_sock = "None" THEN "discover" ELSE "write"]
    /\ w_cmd' = [w_cmd EXCEPT ![k] = Cmd(k)]
    /\ w_ping' = [w_ping EXCEPT ![k] = FALSE]
    /\ w_again' = [w_again EXCEPT ![k] = FALSE]
    /\ w_trace' = [w_trace EXCEPT ![k] = <<>>]
    /\ w_ret' = [w_ret EXCEPT ![k] = NoWireResult]
    /\ UNCHANGED <<w_sock, w_buffer, w_toServer, w_toClient, w_peer, nWireEvents>>
    /\ WireFrame

\* _ensure_connected: discover_socket finds no endpoint (RuntimeError), or
\* connect(path) runs: disconnect(), then the socket cannot be connected
\* (CLIConnectionError) or it is, the buffer is reset and the ping is next
WireEnsure(k) ==
    /\ w_pc[k] = "discover"
    /\ \/ /\ AssignFields(WireFields)
          /\ WireEnds(k, WireRaised("RuntimeError"), <<Shown("raise", <<"RuntimeError">>)>>)
       \/ /\ AssignFields(mcp_disconnect(WireFields))
          /\ WireEnds(k, WireRaised("CLIConnectionError"),
                      <<Shown("disconnect", <<>>), Shown("raise", <<"CLIConnectionError">>)>>)
       \/ /\ w_sock' = "Open" /\ w_buffer' = <<>>
          /\ w_toServer' = <<>> /\ w_toClient' = <<>> /\ w_peer' = "up"
          /\ w_pc' = [w_pc EXCEPT ![k] = "write"]
          /\ w_cmd' = [w_cmd EXCEPT ![k] = Ping]
          /\ w_ping' = [w_ping EXCEPT ![k] = TRUE]
          /\ w_trace' = [w_trace EXCEPT ![k] = @ \o <<Shown("disconnect", <<>>), Shown("connect", <<>>)>>]
          /\ UNCHANGED <<w_again, w_ret>>
    /\ UNCHANGED <<nWire, nWireEvents>>
    /\ WireFrame

\* send: `if self._sock is None: raise`, then sendall(wire); OSError (the
\* peer is gone) is answered by disconnect() and CLIConnectionError
WireWrite(k) ==
    /\ w_pc[k] = "write"
    /\ IF w_sock = "None"
       THEN WireRaises(k, "CLIConnectionError", WireFields)
       ELSE IF w_peer # "up"
       THEN WireRaises(k, "CLIConnectionError", mcp_disconnect(WireFields))
       ELSE /\ w_toServer' = w_toServer \o Encode(w_cmd[k])
            /\ w_pc' = [w_pc EXCEPT ![k] = "read"]
            /\ w_trace' = [w_trace EXCEPT ![k] = Append(@, Shown("write", w_cmd[k]))]
            /\ UNCHANGED <<w_sock, w_buffer, w_toClient, w_peer, w_cmd, w_ping, w_again, w_ret>>
    /\ UNCHANGED <<nWire, nWireEvents>>
    /\ WireFrame

\* _read_line: recv returns what has arrived, which is decoded and appended
WireRecv(k) ==
    /\ w_pc[k] = "read" /\ w_sock # "None" /\ ~Contains(w_buffer, NL) /\ w_toClient # <<>>
    /\ LET n == Min(Len(w_toClient), MAX_RECV)
       IN /\ w_buffer' = BufferAdd(w_buffer, Take(w_toClient, n))
          /\ w_toClient' = Drop(w_toClient, n)
    /\ UNCHANGED <<w_sock, w_toServer, w_peer, w_pc, w_cmd, w_ping, w_again, w_trace, w_ret,
                   nWire, nWireEvents>>
    /\ WireFrame

\* _read_line: recv raises socket.timeout; the socket is kept
WireTimeout(k) ==
    /\ w_pc[k] = "read" /\ w_sock # "None" /\ ~Contains(w_buffer, NL)
    /\ w_toClient = <<>> /\ w_peer = "up"
    /\ WireRaises(k, "CLIConnectionError", WireFields)
    /\ UNCHANGED <<nWire, nWireEvents>>
    /\ WireFrame

\* _read_line: recv returns b"": disconnect() and CLIConnectionError
WireClosed(k) ==
    /\ w_pc[k] = "read" /\ w_sock # "None" /\ ~Contains(w_buffer, NL)
    /\ w_toClient = <<>> /\ w_peer = "closed"
    /\ WireRaises(k, "CLIConnectionError", mcp_disconnect(WireFields))
    /\ UNCHANGED <<nWire, nWireEvents>>
    /\ WireFrame

\* _read_line after another call's disconnect(): `if self._sock is None`
\* raises CLIConnectionError when it is evaluated after the disconnect;
\* self._sock.settimeout or self._sock.recv raise AttributeError when the
\* disconnect came after that test
WireNoSocket(k) ==
    /\ w_pc[k] = "read" /\ w_sock = "None" /\ ~Contains(w_buffer, NL)
    /\ \E exc \in {"CLIConnectionError", "AttributeError"} : WireRaises(k, exc, WireFields)
    /\ UNCHANGED <<nWire, nWireEvents>>
    /\ WireFrame

\* the end of _read_line and the rest of send: the line is taken from the
\* buffer; OK: returns the payload, ERR: raises CLIError, EVENT: calls
\* self.send("", timeout), anything else raises CLIError
WireLine(k) ==
    /\ w_pc[k] = "read" /\ Contains(w_buffer, NL)
    /\ LET parts == SplitFirst(w_buffer, NL)
           line == parts[1]
           f == [sock |-> w_sock, buffer |-> parts[2]]
       IN IF StartsWith(line, OK_PREFIX)
          THEN WireReturns(k, Drop(line, Len(OK_PREFIX)), f)
          ELSE IF StartsWith(line, ERROR_PREFIX)
          THEN WireRaises(k, "CLIError", f)
          ELSE IF StartsWith(line, EVENT_PREFIX)
          THEN /\ AssignFields(f)
               /\ w_cmd' = [w_cmd EXCEPT ![k] = <<>>]
               /\ w_pc' = [w_pc EXCEPT ![k] = "write"]
               /\ UNCHANGED <<w_ping, w_again, w_trace, w_ret>>
          ELSE WireRaises(k, "CLIError", f)
    /\ UNCHANGED <<nWire, nWireEvents>>
    /\ WireFrame

\* what the server answers the command line c with: the payload names the
\* command answered; the empty command is answered with an empty success
\* reply or passed over
WireResponses(c) ==
    IF c = Ping THEN {OK_PREFIX \o Pong \o <<NL>>}
    ELSE IF c = <<>> THEN {OK_PREFIX \o <<NL>>, <<>>}
    ELSE {OK_PREFIX \o c \o <<NL>>, ERROR_PREFIX \o c \o <<NL>>}

\* the server reads the oldest command line and answers it
WireServerReply ==
    /\ w_sock # "None" /\ w_peer = "up" /\ Contains(w_toServer, NL)
    /\ LET parts == SplitFirst(w_toServer, NL)
           c == Drop(parts[1], Len(COMMAND_PREFIX))
       IN /\ w_toServer' = parts[2]
          /\ \E r \in WireResponses(c) : w_toClient' = w_toClient \o r
    /\ UNCHANGED <<w_sock, w_buffer, w_peer, w_pc, w_cmd, w_ping, w_again, w_trace, w_ret,
                   nWire, nWireEvents>>
    /\ WireFrame

\* the server emits an asynchronous event
WireServerEvent ==
    /\ w_sock # "None" /\ w_peer = "up" /\ nWireEvents < MaxWireEvents
    /\ nWireEvents' = nWireEvents + 1
    /\ w_toClient' = w_toClient \o EventFrame(1) \o <<NL>>
    /\ UNCHANGED <<w_sock, w_buffer, w_toServer, w_peer, w_pc, w_cmd, w_ping, w_again, w_trace,
                   w_ret, nWire>>
    /\ WireFrame

\* the server closes its end; what it has written can still be received
WireServerClose ==
    /\ w_sock # "None" /\ w_peer = "up"
    /\ w_peer' = "closed"
    /\ UNCHANGED <<w_sock, w_buffer, w_toServer, w_toClient, w_pc, w_cmd, w_ping, w_again,
                   w_trace, w_ret, nWire, nWireEvents>>
    /\ WireFrame

\* the MCP server has started: _client = CLISocketClient(), no tool called;
\* the tool calls in active may come
WireStart(active) ==
    /\ w_sock = "None" /\ w_buffer = <<>> /\ w_toServer = <<>> /\ w_toClient = <<>>
    /\ w_peer = "up"
    /\ w_pc = [k \in Calls |-> IF k \in active THEN "idle" ELSE "off"]
    /\ w_cmd = [k \in Calls |-> <<>>]
    /\ w_ping = [k \in Calls |-> FALSE]
    /\ w_again = [k \in Calls |-> FALSE]
    /\ w_trace = [k \in Calls |-> <<>>]
    /\ w_ret = [k \in Calls |-> NoWireResult]
    /\ nWire = 0 /\ nWireEvents = 0

WireInit ==
    /\ ClientNew
    /\ StreamIdle /\ ReplOff /\ XlatIdle /\ ModeStart /\ DiscIdle /\ ToolsIdle
    /\ WireStart(Calls)

WireNext ==
    \/ \E k \in Calls : WireCall(k)
    \/ \E k \in Calls : WireEnsure(k)
    \/ \E k \in Calls : WireWrite(k)
    \/ \E k \in Calls : WireRecv(k)
    \/ \E k \in Calls : WireTimeout(k)
    \/ \E k \in Calls : WireClosed(k)
    \/ \E k \in Calls : WireNoSocket(k)
    \/ \E k \in Calls : WireLine(k)
    \/ WireServerReply
    \/ WireServerEvent
    \/ WireServerClose

SpecWire == WireInit /\ [][WireNext]_vars

\* the same with one tool call at a time: the MCP client of the bridge sends
\* its requests one after the other
BridgeInit ==
    /\ ClientNew
    /\ StreamIdle /\ ReplOff /\ XlatIdle /\ ModeStart /\ DiscIdle /\ ToolsIdle
    /\ WireStart({1})

\* with a single call in flight nothing sets _sock to None between the write
\* and the read of one send, so the no-socket branch of _read_line is not a step
BridgeNext ==
    \/ WireCall(1)
    \/ WireEnsure(1)
    \/ WireWrite(1)
    \/ WireRecv(1)
    \/ WireTimeout(1)
    \/ WireClosed(1)
    \/ WireLine(1)
    \/ WireServerReply
    \/ WireServerEvent
    \/ WireServerClose

SpecBridge == BridgeInit /\ [][BridgeNext]_vars

\* ======================================== the pure helpers, called directly
\* every text of at most n characters over an alphabet
TextsOver(alphabet, n) == UNION {[1..k -> alphabet] : k \in 0..n}

\* texts to escape: the five escaped characters and the letters of their
\* escape sequences
EscapeInputs == TextsOver({"\\", " ", "\n", "\t", "\r", "s", "n", "t", "r"}, MaxText)

\* reply lines: a prefix (or none of the protocol's) and a payload with or
\* without separators
ResponseInputs ==
    {p \o t : p \in {OK_PREFIX, ERROR_PREFIX, <<"?">>}, t \in TextsOver({"a", MULTI_LINE_SEP}, MaxText)}

\* event lines
EventInputs == {EVENT_PREFIX \o t : t \in TextsOver({"k", " ", "d"}, MaxText)}

\* a helper and the argument it is about to be called with
HelpersInit ==
    /\ ClientNew
    /\ StreamIdle /\ ReplStart /\ ModeStart /\ ExtIdle
    /\ \/ t_mode = "escape_for_inject" /\ t_line \in EscapeInputs
       \/ t_mode = "parse_response" /\ t_line \in ResponseInputs
       \/ t_mode = "parse_event" /\ t_line \in EventInputs
    /\ t_out = <<>>

CallEscapeForInject ==
    /\ t_mode = "escape_for_inject" /\ t_out = <<>>
    /\ t_out' = <<escape_for_inject(t_line)>>
    /\ XlatFrame

CallParseResponse ==
    /\ t_mode = "parse_response" /\ t_out = <<>>
    /\ t_out' = <<parse_response(t_line)>>
    /\ XlatFrame

CallParseEvent ==
    /\ t_mode = "parse_event" /\ t_out = <<>>
    /\ t_out' = <<parse_event(t_line)>>
    /\ XlatFrame

HelpersNext == CallEscapeForInject \/ CallParseResponse \/ CallParseEvent

SpecHelpers == HelpersInit /\ [][HelpersNext]_vars

\* ================================================================ claims
\* the complete lines of a byte stream, in order
RECURSIVE LinesOf(_)
LinesOf(s) ==
    IF Contains(s, NL) THEN <<SplitFirst(s, NL)[1]>> \o LinesOf(SplitFirst(s, NL)[2]) ELSE <<>>

\* the lines joined again, each followed by its newline
RECURSIVE JoinLines(_)
JoinLines(ls) == IF ls = <<>> THEN <<>> ELSE ls[1] \o <<NL>> \o JoinLines(Tail(ls))

\* how many lines of a sequence of lines are no EVENT: frames
RECURSIVE CountReplies(_)
CountReplies(ls) ==
    IF ls = <<>> THEN 0
    ELSE (IF StartsWith(ls[1], EVENT_PREFIX) THEN 0 ELSE 1) + CountReplies(Tail(ls))

\* command frames written on this connection whose reply the client has not
\* read: those the server has not answered yet, and those whose reply is in
\* flight or in the receive buffer
AwaitingReply == Len(LinesOf(toServer)) + CountReplies(LinesOf(buffer \o toClient))

\* a thread is about to take a complete line from the receive buffer in send
TakesLine(t) == pc[t] = "read" /\ Contains(buffer, NL) /\ buffer' # buffer

C2_ReplyMatchesRequest ==
    \A t \in Threads : result[t].kind = "response" => result[t].payload = Cmd(t)

\* C3 (as claimed): at most one written command frame awaits its reply.
C3_OneInFlight == AwaitingReply <= 1

\* C4 (as claimed): a send that ends with a connection error raised by the
\* read leaves the client not connected.
C4_ReadFailureDisconnects ==
    [][\A t \in Threads : (pc[t] = "read" /\ pc'[t] = "idle" /\ result'[t].kind = "CLIConnectionError")
          => ~is_connected']_vars

\* C5 (as claimed): when the owner's last send on this connection raised a
\* connection error, its next send never gets to write its frame.  (The
\* owner's result is reset by connect, so at the lock it can only hold the
\* error of a send made on the present connection.)
C5_NoWriteAfterFailure ==
    [][(pc[Owner] = "acquire" /\ result[Owner].kind = "CLIConnectionError")
          => pc'[Owner] # "read"]_vars

\* C6: connect writes exactly CMD:ping; it ends connected only when the line
\* read is exactly OK:pong, and every other end leaves no socket, an empty
\* buffer and is_connected false; is_connected becomes true in no other step.
C6_Handshake ==
    [][/\ \A t \in Threads : (pc[t] = "idle" /\ pc'[t] = "conn_read") =>
              /\ toServer' = <<"C", "M", "D", ":", "p", "i", "n", "g", "\n">>
              /\ ~is_connected'
       /\ \A t \in Threads : (pc[t] = "conn_read" /\ pc'[t] = "idle") =>
              IF Contains(buffer, NL) /\ SplitFirst(buffer, NL)[1] = <<"O", "K", ":", "p", "o", "n", "g">>
              THEN is_connected' /\ result'[t].kind = "none" /\ toServer' = toServer
              ELSE /\ sock' = NoSock /\ buffer' = <<>> /\ ~connected' /\ ~is_connected'
                   /\ result'[t].kind = "CLIConnectionError"
       /\ (~is_connected /\ is_connected') => \E t \in Threads : pc[t] = "conn_read"]_vars

\* C6 witness: the handshake has succeeded and bytes that followed the pong
\* are in the buffer
C6_Witness == is_connected /\ nCalls = 1 /\ buffer # <<>>

\* C7 (as claimed): once everything has arrived, the lines returned are the
\* lines of the text the server wrote, and what follows the last newline is
\* in the buffer.
C7_LinesAreStreamSplit ==
    (toClient = <<>> /\ ~Contains(buffer, NL)) =>
        /\ linesOut = LinesOf(Decode(stream))
        /\ Decode(stream) = (IF linesOut = <<>> THEN <<>> ELSE JoinLines(linesOut)) \o buffer

\* C8: what drain_events has returned so far, followed by what is queued, is
\* exactly the events of the EVENT: lines send has read, in the order read;
\* a drain returns the whole queue and leaves it empty.
C8_EventsConserved ==
    /\ [](drained \o event_queue = [i \in 1..Len(evRead) |-> parse_event(evRead[i])])
    /\ [][drained' # drained => (drained' = drained \o event_queue /\ event_queue' = <<>>)]_vars

\* C8 witness: two events were read and both have been drained
C8_Witness == Len(drained) = 2 /\ event_queue = <<>> /\ drained[1] # drained[2]

\* C9: whenever the client holds no socket (never connected, disconnected, or
\* a failed connect) the buffer is empty and is_connected is false, and
\* disconnect would change nothing; disconnect twice is disconnect once.
C9_DisconnectIdempotent ==
    /\ disconnect(disconnect(ClientFields)) = disconnect(ClientFields)
    /\ sock = NoSock => /\ buffer = <<>> /\ ~connected /\ ~is_connected
                        /\ disconnect(ClientFields) = ClientFields

\* C9 witness: the client was disconnected after a successful handshake
C9_Witness == sock = NoSock /\ nCalls = 1 /\ result[Owner].kind = "none"

\* C10: a mode-switch line read in Normal state sends nothing and changes
\* only the mode: .monitor to monitor, .basic and .basic atari to basic,
\* .basic turbo to basic_turbo, .dos to dos (case and surrounding blanks
\* ignored); current_drive, the assembly flag and the cursor stay, the loop
\* goes on, the client is left alone; the mode is always one of the four.
C10_ModeSwitchOnly ==
    /\ [](mode \in {"monitor", "basic", "basic_turbo", "dos"})
    /\ [][(rpc = "prompt" /\ ~in_assembly /\ got' = "line" /\ nTurns' = nTurns + 1
           /\ lower(strip(last_line')) \in {<<".", "m", "o", "n", "i", "t", "o", "r">>, <<".", "b", "a", "s", "i", "c">>, <<".", "b", "a", "s", "i", "c", " ", "a", "t", "a", "r", "i">>, <<".", "b", "a", "s", "i", "c", " ", "t", "u", "r", "b", "o">>, <<".", "d", "o", "s">>})
          => /\ mode' = (CASE lower(strip(last_line')) = <<".", "m", "o", "n", "i", "t", "o", "r">> -> "monitor"
                           [] lower(strip(last_line')) = <<".", "b", "a", "s", "i", "c">> -> "basic"
                           [] lower(strip(last_line')) = <<".", "b", "a", "s", "i", "c", " ", "a", "t", "a", "r", "i">> -> "basic"
                           [] lower(strip(last_line')) = <<".", "b", "a", "s", "i", "c", " ", "t", "u", "r", "b", "o">> -> "basic_turbo"
                           [] lower(strip(last_line')) = <<".", "d", "o", "s">> -> "dos")
             /\ \A i \in 1..Len(turn') : turn'[i].k # "send"
             /\ UNCHANGED <<current_drive, in_assembly, assembly_addr, rpc, commands>>
             /\ UNCHANGED connVars]_vars

\* C10 witness: .Basic Turbo was typed in dos mode on drive 2 and the REPL is
\* back at the prompt in basic_turbo mode, still on drive 2
C10_Witness ==
    /\ mode = "basic_turbo" /\ current_drive = 2 /\ rpc = "prompt" /\ got = "line"
    /\ last_line = <<" ", ".", "B", "a", "s", "i", "c", " ", "T", "u", "r", "b", "o", " ">> /\ turn = <<Printed(<<"S", "w", "i", "t", "c", "h", "e", "d", " ", "t", "o", " ", "T", "u", "r", "b", "o", " ", "B", "A", "S", "I", "C", " ", "m", "o", "d", "e">>)>>

\* the REPL has just sent a command of a translated batch and got r for it
BatchSent == rpc = "batch" /\ Len(turn') > Len(turn)

\* the reply is a success reply whose payload starts with "ASM $"
IsAsmEntry(r) == r.kind = "response" /\ r.success /\ StartsWith(r.payload, <<"A", "S", "M", " ", "$">>)

\* C11 (as claimed): when the success reply to a command of a batch starts
\* with "ASM $", the REPL is in the assembly session with the cursor at the
\* address of the payload ($0600 is 1536), the payload is not printed as a
\* reply, and the batch is over: nothing of it is left to send and the
\* prompt is next.
C11_AsmEntryEndsBatch ==
    [][(BatchSent /\ IsAsmEntry(reply') /\ reply'.payload = <<"A", "S", "M", " ", "$", "0", "6", "0", "0">>) =>
          /\ in_assembly' /\ assembly_addr' = 1536
          /\ \A i \in 1..Len(turn') : turn'[i] # Printed(reply'.payload)
          /\ commands' = <<>> /\ rpc' = "prompt"]_vars

\* the commands sent in a turn, in order
SentIn(t) == SelectSeq(t, LAMBDA e : e.k = "send")

\* the prompt of the assembly session has just been answered with a line
AsmLineRead == in_assembly /\ rpc = "prompt" /\ got' = "line" /\ nTurns' = nTurns + 1

\* C12: in the assembly session a line that is empty after trimming or is "."
\* makes the REPL send `assemble end` and nothing else, and leaves it in
\* Normal state at the prompt with the mode and the drive it had, whatever
\* the send returned or raised.
C12_TerminatorEndsSession ==
    [][(AsmLineRead /\ strip(last_line') \in {<<>>, <<".">>}) =>
          /\ SentIn(turn') = <<Shown("send", <<"a", "s", "s", "e", "m", "b", "l", "e", " ", "e", "n", "d">>)>>
          /\ ~in_assembly' /\ rpc' = "prompt"
          /\ mode' = mode /\ current_drive' = current_drive]_vars

\* C12 witness: the session entered from monitor mode was ended with " ."
\* while the connection was lost, and the REPL is back in monitor mode
C12_Witness ==
    /\ got = "line" /\ last_line = <<" ", ".">> /\ turn # <<>> /\ turn[1] = Shown("send", <<"a", "s", "s", "e", "m", "b", "l", "e", " ", "e", "n", "d">>)
    /\ reply.kind = "CLIConnectionError"
    /\ ~in_assembly /\ rpc = "prompt" /\ mode = "monitor"

\* C13: in the assembly session any other line is sent as one
\* `assemble input <trimmed line>`; the cursor becomes the address after the
\* separator of a success reply ($0602 is 1538) and keeps its value when that
\* text is no hex number ($zz), when there is no separator, on ERR and on an
\* exception; the session stays active and the REPL is at the prompt.
C13_AsmInputKeepsSession ==
    [][(AsmLineRead /\ strip(last_line') \notin {<<>>, <<".">>}) =>
          /\ SentIn(turn') = <<Shown("send", <<"a", "s", "s", "e", "m", "b", "l", "e", " ", "i", "n", "p", "u", "t", " ">> \o strip(last_line'))>>
          /\ in_assembly' /\ rpc' = "prompt"
          /\ assembly_addr' = IF reply'.kind = "response" /\ reply'.success
                                  /\ reply'.payload = <<"a", MULTI_LINE_SEP, "$", "0", "6", "0", "2">>
                               THEN 1538 ELSE assembly_addr]_vars

\* C13 witness: an instruction was answered with the next address $0602 and
\* the cursor has moved there from $0600
C13_Witness ==
    /\ in_assembly /\ rpc = "prompt" /\ got = "line" /\ assembly_addr = 1538
    /\ reply.kind = "response" /\ reply.payload = <<"a", MULTI_LINE_SEP, "$", "0", "6", "0", "2">>
    /\ turn # <<>> /\ turn[1] = Shown("send", <<"a", "s", "s", "e", "m", "b", "l", "e", " ", "i", "n", "p", "u", "t", " ", "g", " ", "$", "0", "6", "0", "0">>)

\* C14 (as claimed): when a batch is complete, in Normal state (the last
\* command of the translated list, or the one that raised) and in the
\* assembly session (the one command of the line read), no event is left in
\* the queue as the REPL goes back to the prompt.
C14_DrainedBeforePrompt ==
    [][(/\ \/ rpc = "batch"
           \/ in_assembly /\ rpc = "prompt" /\ nTurns' = nTurns + 1 /\ SentIn(turn') # <<>>
        /\ rpc' = "prompt")
          => event_queue' = <<>>]_vars

\* C15: when the send of a command of a batch raises (connection lost,
\* timeout, malformed frame), the loop is over with the rest of the batch
\* unsent, mode, drive, assembly flag and cursor are what they were, and
\* the REPL is at the prompt.
C15_SendErrorAbortsBatch ==
    [][(BatchSent /\ reply'.kind \in {"CLIConnectionError", "ValueError"}) =>
          /\ SentIn(turn') = SentIn(turn) \o <<Shown("send", Head(commands))>>
          /\ commands' = <<>> /\ rpc' = "prompt"
          /\ UNCHANGED <<mode, current_drive, in_assembly, assembly_addr>>]_vars

\* C15 witness: of the batch of `g $0600` only the first command was sent,
\* its reply was a malformed frame, and the REPL is at the prompt
C15_Witness ==
    /\ rpc = "prompt" /\ got = "line" /\ last_line = <<"g", " ", "$", "0", "6", "0", "0">>
    /\ mode = "monitor" /\ reply.kind = "ValueError"
    /\ SentIn(turn) = <<Shown("send", <<"r", "e", "g", "i", "s", "t", "e", "r", "s", " ", "p", "c", "=", "$", "0", "6", "0", "0">>)>>

\* C16 (as claimed): end-of-input at the prompt terminates the REPL, after
\* one `assemble end` when the assembly session is active and with nothing
\* sent otherwise.
C16_EofTerminates ==
    [][(rpc = "prompt" /\ got' = "EOFError" /\ nTurns' = nTurns + 1) =>
          /\ rpc' = "done"
          /\ SentIn(turn') = IF in_assembly THEN <<Shown("send", <<"a", "s", "s", "e", "m", "b", "l", "e", " ", "e", "n", "d">>)>> ELSE <<>>]_vars

\* C17 (as claimed): a success reply to `unmount <n>` leaves current_drive
\* at 1 when n was the current drive and leaves it as it was otherwise.
C17_UnmountResetsDrive ==
    [][(/\ h_pc = "loop" /\ Len(h_sent') > Len(h_sent)
        /\ h_reply'.kind = "response" /\ h_reply'.success) =>
          /\ Head(h_cmds) = <<"u", "n", "m", "o", "u", "n", "t", " ", "1">> => h_drive' = (IF h_drive = 1 THEN 1 ELSE h_drive)
          /\ Head(h_cmds) = <<"u", "n", "m", "o", "u", "n", "t", " ", "2">> => h_drive' = (IF h_drive = 2 THEN 1 ELSE h_drive)]_vars

\* what the step has added to the turn
AddedToTurn == SubSeq(turn', Len(turn) + 1, Len(turn'))

\* C18: a success reply D2: to a `dos cd` command makes current_drive 2, and
\* the assignment comes before the payload is printed; a success reply of
\* another shape (empty, Dx:, no leading D) leaves current_drive as it was.
C18_CdTracksReplyDrive ==
    [][(BatchSent /\ StartsWith(Head(commands), <<"d", "o", "s", " ", "c", "d", " ">>)
          /\ reply'.kind = "response" /\ reply'.success) =>
          IF reply'.payload = <<"D", "2", ":">>
          THEN /\ current_drive' = 2
               /\ Len(AddedToTurn) >= 3
               /\ SubSeq(AddedToTurn, 1, 3) = <<Shown("send", Head(commands)),
                                                Shown("current_drive", <<"2">>),
                                                Printed(reply'.payload)>>
          ELSE current_drive' = current_drive]_vars

\* C18 witness: `cd 2` in dos mode was answered D2: and the drive is 2
C18_Witness ==
    /\ rpc = "prompt" /\ got = "line" /\ last_line = <<"c", "d", " ", "2">> /\ mode = "dos"
    /\ current_drive = 2 /\ reply.payload = <<"D", "2", ":">>
    /\ turn = <<Shown("send", <<"d", "o", "s", " ", "c", "d", " ", "2">>), Shown("current_drive", <<"2">>), Printed(<<"D", "2", ":">>)>>

\* C19 (as claimed): in the turn of `g $0600` typed in monitor mode the
\* commands sent are `registers pc=$0600` and then `resume`, and nothing is
\* printed before the last of them has been sent.
C19_GoSendsBothBeforeRender ==
    (/\ got = "line" /\ last_line = <<"g", " ", "$", "0", "6", "0", "0">>
     /\ turn # <<>> /\ turn[1] = Shown("send", <<"r", "e", "g", "i", "s", "t", "e", "r", "s", " ", "p", "c", "=", "$", "0", "6", "0", "0">>)) =>
        /\ SentIn(turn) \in {<<Shown("send", <<"r", "e", "g", "i", "s", "t", "e", "r", "s", " ", "p", "c", "=", "$", "0", "6", "0", "0">>)>>,
                              <<Shown("send", <<"r", "e", "g", "i", "s", "t", "e", "r", "s", " ", "p", "c", "=", "$", "0", "6", "0", "0">>), Shown("send", <<"r", "e", "s", "u", "m", "e">>)>>}
        /\ \A i, j \in 1..Len(turn) : (i < j /\ turn[j].k = "send") => turn[i].k # "print"

\* C20: translate_monitor turns g or G followed by arguments into
\* `registers pc=<arguments>` and `resume`, the arguments being the rest of
\* the line after the white space, letter for letter; g or G alone into
\* `resume`; and a line whose first word is no monitor command (x, LIST,
\* cd) into the line itself, alone.
C20_TranslateGo ==
    (t_mode = "monitor" /\ t_out # <<>>) =>
        /\ \A tok \in {<<"g">>, <<"G">>}, a \in TranslateArgs :
              t_line = tok \o a =>
                 t_out = IF a = <<>> THEN <<<<"r", "e", "s", "u", "m", "e">>>>
                         ELSE <<<<"r", "e", "g", "i", "s", "t", "e", "r", "s", " ", "p", "c", "=">> \o lstrip(a), <<"r", "e", "s", "u", "m", "e">>>>
        /\ \A tok \in {<<"x">>, <<"L", "I", "S", "T">>, <<"c", "d">>}, a \in TranslateArgs :
              t_line = tok \o a => t_out = <<t_line>>

\* C20 witness: `G  $e000 1` has been translated
C20_Witness ==
    /\ t_mode = "monitor" /\ t_line = <<"G", " ", " ", "$", "e", "0", "0", "0", " ", "1">>
    /\ t_out = <<<<"r", "e", "g", "i", "s", "t", "e", "r", "s", " ", "p", "c", "=", "$", "e", "0", "0", "0", " ", "1">>, <<"r", "e", "s", "u", "m", "e">>>>

\* the escape sequence of one character in the `inject keys` format
EscapeChar(c) ==
    CASE c = "\\" -> <<"\\", "\\">>
      [] c = "\n" -> <<"\\", "n">>
      [] c = "\t" -> <<"\\", "t">>
      [] c = "\r" -> <<"\\", "r">>
      [] c = " " -> <<"\\", "s">>
      [] OTHER -> <<c>>

\* a text with each of its characters escaped, one after the other
RECURSIVE EscapeEach(_)
EscapeEach(text) ==
    IF text = <<>> THEN <<>> ELSE EscapeChar(text[1]) \o EscapeEach(Tail(text))

\* C21: translate_basic turns a line whose first word is no editor command
\* (g, G, x, cd, 10, >) into one command: `inject keys `, then the line
\* with every character escaped and its case kept, then backslash and n;
\* after the prefix there is no space, newline, tab or carriage return.
C21_BasicInjectsLine ==
    (t_mode = "basic" /\ t_out # <<>>) =>
        \A tok \in {<<"g">>, <<"G">>, <<"x">>, <<"c", "d">>, <<"1", "0">>, <<">">>}, a \in TranslateArgs :
            t_line = tok \o a =>
               /\ t_out = <<<<"i", "n", "j", "e", "c", "t", " ", "k", "e", "y", "s", " ">> \o EscapeEach(t_line) \o <<"\\", "n">>>>
               /\ \A i \in 13..Len(t_out[1]) : t_out[1][i] \notin {" ", "\n", "\t", "\r"}

\* C21 witness: a numbered line with a space, a tab and a backslash in it
\* has been translated
C21_Witness ==
    /\ t_mode = "basic" /\ t_line = <<"1", "0", " ", "a", "\t", "b", "\\", "n">>
    /\ t_out = <<<<"i", "n", "j", "e", "c", "t", " ", "k", "e", "y", "s", " ", "1", "0", "\\", "s", "a", "\\", "t", "b", "\\", "\\", "n", "\\", "n">>>>

\* the line has none of the prefixes OK:, ERR:, EVENT:
NoKnownPrefix(line) ==
    /\ ~StartsWith(line, OK_PREFIX) /\ ~StartsWith(line, ERROR_PREFIX)
    /\ ~StartsWith(line, EVENT_PREFIX)

\* C24: when the line send takes from the buffer has none of the prefixes
\* OK:, ERR:, EVENT:, the call ends at once with the ValueError for that
\* line: the line is gone from the buffer and what followed it is still
\* there, no event is queued, nothing is written again, and socket and
\* connected flag are as they were.
C24_MalformedFrameRaises ==
    [][\A t \in Threads :
          (TakesLine(t) /\ NoKnownPrefix(SplitFirst(buffer, NL)[1])) =>
             /\ result'[t].kind = "ValueError"
             /\ result'[t].payload = SplitFirst(buffer, NL)[1]
             /\ pc'[t] = "idle" /\ io_lock' = 0
             /\ buffer' = SplitFirst(buffer, NL)[2]
             /\ event_queue' = event_queue
             /\ UNCHANGED <<sock, connected, toServer>>]_vars

\* C24 witness: a send has ended with the ValueError, the client is still
\* connected and the frame that followed the malformed one is in the buffer
C24_Witness ==
    \E t \in Threads : /\ pc[t] = "idle" /\ result[t].kind = "ValueError"
                       /\ is_connected /\ event_queue = <<>>
                       /\ buffer = EventFrame(1) \o <<NL>>

\* the inverse mapping of the `inject keys` format: a backslash and the
\* character after it stand for one character
UnescapeChar(c) ==
    CASE c = "n" -> "\n"
      [] c = "t" -> "\t"
      [] c = "r" -> "\r"
      [] c = "s" -> " "
      [] OTHER -> c

RECURSIVE Unescape(_)
Unescape(text) ==
    IF text = <<>> THEN <<>>
    ELSE IF text[1] = "\\" /\ Len(text) >= 2
         THEN <<UnescapeChar(text[2])>> \o Unescape(Drop(text, 2))
         ELSE <<text[1]>> \o Unescape(Tail(text))

\* C22: escape_for_inject is lossless: decoding its output with the inverse
\* mapping gives back the input, and the output is the input with each
\* character escaped exactly once (no backslash the escaping introduced is
\* escaped again).
C22_EscapeLossless ==
    (t_mode = "escape_for_inject" /\ t_out # <<>>) =>
        /\ Unescape(t_out[1]) = t_line
        /\ t_out[1] = EscapeEach(t_line)

\* C22 witness: backslash, the letter n and a newline have been escaped
C22_Witness ==
    /\ t_mode = "escape_for_inject" /\ t_line = <<"\\", "n", "\n">>
    /\ t_out = <<<<"\\", "\\", "n", "\\", "n">>>>

\* C23: for a reply line with the prefix OK: or ERR:, is_multiline is true
\* exactly when the payload holds the separator, lines is the literal split
\* of the payload at the separator (empty segments kept), and joining lines
\* with the separator gives the payload.
C23_LinesAreLiteralSplit ==
    (t_mode = "parse_response" /\ t_out # <<>> /\ t_out[1].kind = "response") =>
        /\ t_out[1].is_multiline = Contains(t_out[1].payload, MULTI_LINE_SEP)
        /\ lines(t_out[1]) = split_sep(t_out[1].payload, MULTI_LINE_SEP)
        /\ join(<<MULTI_LINE_SEP>>, lines(t_out[1])) = t_out[1].payload

\* C25: parse_event splits the text after EVENT: at its first space: the
\* kind has no space, kind, a space and data give the text back; without a
\* space the kind is the whole text and the data is empty.
C25_EventSplitAtFirstSpace ==
    (t_mode = "parse_event" /\ t_out # <<>>) =>
        LET body == Drop(t_line, Len(EVENT_PREFIX))
            ev == t_out[1]
        IN IF Contains(body, " ")
           THEN /\ ~Contains(ev.kind, " ")
                /\ ev.kind \o <<" ">> \o ev.data = body
           ELSE ev.kind = body /\ ev.data = <<>>

\* C25 witness: an event whose data holds a second space
C25_Witness ==
    /\ t_mode = "parse_event" /\ t_line = EVENT_PREFIX \o <<"k", " ", " ">>
    /\ t_out = <<[kind |-> <<"k">>, data |-> <<" ">>]>>

\* the name carries a process id and that process exists
OwnerAlive(name) == ~int_fails(name, 10) /\ d_proc[int_value(name, 10)] # "gone"
\* the name carries a process id and that process does not exist
OwnerGone(name) == ~int_fails(name, 10) /\ d_proc[int_value(name, 10)] = "gone"
\* the step is a pass of the scan loop; it looks at Head(d_todo)
ScanStep == d_pc = "scan" /\ d_todo # <<>> /\ d_todo' # d_todo
\* the step ends a call of discover_socket
ScanEnds == d_pc = "scan" /\ d_pc' = "idle"

\* C26: discover_socket takes an endpoint for a candidate only when its
\* owner is alive, and returns only candidates (so, with files and
\* processes unchanged during the call, the owner of the returned endpoint
\* is alive); a scanned endpoint with a numeric pid whose process does not
\* exist is handed to os.unlink, is gone afterwards unless the deletion
\* fails, is no candidate, and the scan goes on either way.
C26_StaleNeverReturned ==
    [][/\ Len(d_cands') > Len(d_cands) => OwnerAlive(Head(d_todo))
       /\ (ScanEnds /\ d_ret'.kind = "path") =>
              /\ \E i \in 1..Len(d_cands) : d_cands[i][2] = d_ret'.path
              /\ d_epoch = d_start => OwnerAlive(d_ret'.path)
       /\ (ScanStep /\ OwnerGone(Head(d_todo))) =>
              /\ d_unlinks' = Append(d_unlinks, Head(d_todo))
              /\ d_cands' = d_cands /\ d_pc' = "scan" /\ d_todo' = Tail(d_todo)
              /\ ~unlink_fails(d_dir, Head(d_todo)) => ~has_file(d_dir', Head(d_todo))]_vars

\* C26 witness: a call has deleted a stale endpoint and returned a live one
C26_Witness ==
    /\ d_pc = "idle" /\ d_ret.kind = "path" /\ d_epoch = 0
    /\ OwnerAlive(d_ret.path) /\ has_file(d_dir, d_ret.path)
    /\ d_unlinks # <<>> /\ ~has_file(d_dir, d_unlinks[1])

\* every call of discover_socket returns a path or None
C27_Returns == d_ret'.kind # "OSError"

\* with files and processes unchanged during the call, the result is the
\* live endpoint with the greatest modification time, or None without one
C27_MostRecent ==
    (ScanEnds /\ d_epoch = d_start /\ d_ret'.kind # "OSError") =>
        LET live == {i \in 1..Len(d_dir) : OwnerAlive(d_dir[i].name)}
        IN IF live = {} THEN d_ret'.kind = "None"
           ELSE /\ d_ret'.kind = "path"
                /\ \E i \in live : /\ d_dir[i].name = d_ret'.path
                                    /\ \A j \in live : d_dir[j].mtime <= d_dir[i].mtime

\* a step of the call leaves every file whose owner is alive, or whose name
\* carries no process id, as it is
C27_LeavesLive ==
    d_epoch' = d_epoch =>
        \A i \in 1..Len(d_dir) :
            ~OwnerGone(d_dir[i].name) => \E j \in 1..Len(d_dir') : d_dir'[j] = d_dir[i]

\* a call that ends with no change of files or processes since the call
\* before it began gives the result of that call
C27_Idempotent ==
    (ScanEnds /\ d_ret.kind # "none yet" /\ d_ret.began = d_epoch) =>
        d_ret'.kind = d_ret.kind /\ d_ret'.path = d_ret.path

\* C27: discover_socket returns the live endpoint with the most recent
\* modification time, or None when no endpoint is live; it deletes or
\* changes no endpoint whose owner is alive or whose name has no numeric
\* pid; and a second call, with endpoints and processes unchanged, returns
\* what the first returned.
C27_MostRecentLive ==
    [][C27_Returns /\ C27_MostRecent /\ C27_LeavesLive /\ C27_Idempotent]_vars

\* C30: Ctrl-C at the prompt, in Normal state or in the assembly session:
\* nothing is sent or printed, the REPL is at the prompt again, and mode,
\* current_drive, in_assembly, assembly_addr and the client are unchanged.
C30_InterruptAbsorbed ==
    [][(rpc = "prompt" /\ nTurns' = nTurns + 1 /\ got' = "KeyboardInterrupt") =>
          /\ turn' = <<>> /\ rpc' = "prompt"
          /\ UNCHANGED <<mode, current_drive, in_assembly, assembly_addr>>
          /\ UNCHANGED <<sock, buffer, connected, event_queue, toServer>>]_vars

\* C30 witness: the interrupt came in the assembly session entered from
\* monitor mode
C30_Witness ==
    /\ got = "KeyboardInterrupt" /\ turn = <<>> /\ rpc = "prompt"
    /\ in_assembly /\ assembly_addr = 1536 /\ mode = "monitor"

\* a tool call that had started the assembly session ends
BlockEnds == m_pc \in {"input", "cleanup", "end"} /\ m_pc' = "idle"

\* C28: the REPL clears in_assembly only in a turn that begins with the
\* send of `assemble end`, and never ends inside a session; a call of
\* emulator_assemble_block whose start command succeeded ends, returning or
\* raising, with `assemble end` as the last command handed to _send, after
\* the start command and the inputs and handed over once.
C28_SessionAlwaysEnded ==
    [][/\ (in_assembly /\ ~in_assembly') =>
              /\ SentIn(turn') # <<>>
              /\ SentIn(turn')[1] = Shown("send", ASSEMBLE_END)
       /\ rpc' = "done" => ~in_assembly'
       /\ m_pc' = "idle" => (m_pc = "idle" \/ BlockEnds)
       /\ BlockEnds =>
              /\ Len(m_cmds') >= 3
              /\ m_cmds'[Len(m_cmds')] = ASSEMBLE_END
              /\ \A i \in 1..(Len(m_cmds') - 1) : m_cmds'[i] # ASSEMBLE_END
              /\ m_result'.kind \in {"return", "raise"}]_vars

\* C28 witness: the second instruction of a block was refused, `assemble
\* end` was handed to _send after it, and the error was raised
C28_Witness ==
    /\ m_tool = "emulator_assemble_block" /\ m_pc = "idle"
    /\ m_result = ToolRaise("CLIError")
    /\ Len(m_lines) = 1 /\ Len(m_cmds) = 4
    /\ m_cmds[3] = <<"a", "s", "s", "e", "m", "b", "l", "e", " ", "i", "n", "p", "u", "t", " ", "R", "T", "S">>
    /\ m_cmds[4] = ASSEMBLE_END

\* the data strings parse_hex_bytes has to reject: no byte, a token that is
\* not hexadecimal, a value outside 0..255
RejectedData == {<<>>, <<",">>, <<"G", "G">>, <<"1", "0", "0">>, <<"A", "9", " ", "1", "F", "F">>, <<"-", "1">>}

\* C29: emulator_write_memory with a data string that parse_hex_bytes
\* rejects raises ValueError with no command handed to _send, no command
\* written, no connect and the socket as it was; with any other data string
\* one `write` command is handed to _send.
C29_BadDataSendsNothing ==
    [][(m_pc = "idle" /\ nTools' = nTools + 1 /\ m_tool' = "emulator_write_memory") =>
          IF m_data' \in RejectedData
          THEN /\ m_result' = ToolRaise("ValueError")
               /\ m_cmds' = <<>> /\ m_wire' = <<>> /\ m_connects' = 0
               /\ m_sock' = m_sock
          ELSE /\ Len(m_cmds') = 1
               /\ StartsWith(m_cmds'[1], <<"w", "r", "i", "t", "e", " ", "$", "0", "6", "0", "0", " ">>)
               /\ Len(m_cmds'[1]) > Len(<<"w", "r", "i", "t", "e", " ", "$", "0", "6", "0", "0", " ">>)]_vars

\* C29 witness: a value above 255 was rejected while the client was connected
C29_Witness ==
    /\ m_tool = "emulator_write_memory" /\ m_data = <<"A", "9", " ", "1", "F", "F">>
    /\ m_result = ToolRaise("ValueError")
    /\ m_sock = "Open" /\ m_wire = <<>> /\ m_cmds = <<>> /\ nTools = 2

\* C31: every call to send that has written its command eventually returns a
\* reply or raises, also against a server that keeps emitting EVENT: frames
\* and never sends the reply.
C31_SendTerminates == \A t \in Threads : (pc[t] = "read") ~> (pc[t] = "idle")

\* C32 (as claimed): when a command of a batch is answered with an ERR:
\* reply, the batch is over with the rest of it unsent (for `g $0600`:
\* `resume` is not sent once `registers pc=$0600` was refused), the
\* connection is as usable as before and mode, drive, assembly flag and
\* cursor are what they were.
C32_ErrReplyAbortsBatch ==
    [][(BatchSent /\ reply'.kind = "response" /\ ~reply'.success) =>
          /\ SentIn(turn') = SentIn(turn) \o <<Shown("send", Head(commands))>>
          /\ commands' = <<>> /\ rpc' = "prompt"
          /\ UNCHANGED <<sock, connected>>
          /\ UNCHANGED <<mode, current_drive, in_assembly, assembly_addr>>]_vars

\* the positions of w_trace[k] at which the tool's own command was written
OwnWrites(k) == {i \in 1..Len(w_trace[k]) : w_trace[k][i] = Shown("write", Cmd(k))}

\* C33 (as claimed): a call of attic_mcp send writes one command frame, the
\* command it was given (the ping inside connect), and the payload returned
\* to a tool is the payload of the reply to the tool's own command (the
\* server's success reply to a command carries the command), whether or not
\* EVENT: frames arrive before the reply.
C33_OneFramePerSend ==
    \A k \in Calls :
        /\ \A i \in 1..Len(w_trace[k]) :
              w_trace[k][i].k = "write" => w_trace[k][i].v \in {Ping, Cmd(k)}
        /\ w_ret[k].kind = "return" => w_ret[k].value = Cmd(k)

\* call k is inside attic_mcp CLISocketClient.send
InSend(k) == w_pc[k] \in {"write", "read"}

\* C34 (as claimed): while the server emits no event, two tool calls are
\* never inside the client's send at the same time, and the payload
\* returned to a tool is the payload of the reply to its own command.
C34_CallsDoNotInterleave ==
    nWireEvents = 0 =>
        /\ \A j, k \in Calls : j # k => ~(InSend(j) /\ InSend(k))
        /\ \A k \in Calls : w_ret[k].kind = "return" => w_ret[k].value = Cmd(k)

\* C38: _send writes the tool's command at most twice; the second write
\* comes after exactly one exception of the first attempt, a
\* CLIConnectionError, followed by a disconnect and a handshake that
\* succeeded; after a CLIError (the ERR: reply) nothing more is done and the
\* CLIError is what the tool gets; and an exception after the second write
\* is what the tool gets.
C38_AtMostOneRetry ==
    \A k \in Calls :
        LET tr == w_trace[k]
            Raised(i) == tr[i].k = "raise"
        IN /\ Cardinality(OwnWrites(k)) <= 2
           /\ \A i, j \in OwnWrites(k) : i < j =>
                 /\ \E a, b, c \in (i + 1)..(j - 1) :
                       /\ a < b /\ b < c
                       /\ tr[a] = Shown("raise", <<"CLIConnectionError">>)
                       /\ tr[b] = Shown("disconnect", <<>>)
                       /\ tr[c] = Shown("connected", <<>>)
                 /\ Cardinality({a \in (i + 1)..(j - 1) : Raised(a)}) = 1
                 /\ \A a \in (j + 1)..Len(tr) : Raised(a) =>
                       a = Len(tr) /\ w_pc[k] = "done" /\ w_ret[k] = [kind |-> "raise", value |-> tr[a].v]
           /\ \A a \in 1..Len(tr) : (tr[a] = Shown("raise", <<"CLIError">>) /\ ~w_ping[k]) =>
                 a = Len(tr) /\ w_pc[k] = "done" /\ w_ret[k] = WireRaised("CLIError")

\* C38 witness: the first attempt timed out, the client was disconnected and
\* connected again, the command was written once more and its reply returned
C38_Witness ==
    /\ w_pc[1] = "done" /\ w_ret[1] = WireReturned(Cmd(1))
    /\ w_trace[1] = <<Shown("disconnect", <<>>), Shown("connect", <<>>), Shown("write", Ping),
                      Shown("connected", <<>>), Shown("write", Cmd(1)),
                      Shown("raise", <<"CLIConnectionError">>), Shown("disconnect", <<>>),
                      Shown("disconnect", <<>>), Shown("connect", <<>>), Shown("write", Ping),
                      Shown("connected", <<>>), Shown("write", Cmd(1)), Shown("return", Cmd(1))>>

\* C35 (as claimed): once a send has ended in a timeout, a reply returned
\* by a send on the same client is the reply to the command that send
\* wrote, never the late reply to the command that timed out (the server's
\* payload names the command it answers).
C35_LateReplyNotReturned ==
    [][\A t \in Threads :
          (/\ pc[t] = "read" /\ pc'[t] = "idle" /\ result'[t].kind = "response"
           /\ \E u \in Threads : result[u] = ConnError(TIMED_OUT))
          => result'[t].payload = Cmd(t)]_vars

\* C36: in the assembly session a line that is neither empty nor "." after
\* trimming, a dot-command such as .quit or .dos included, is sent as the one
\* command `assemble input <trimmed line>`: nothing is translated, the REPL
\* goes on (prompt next, client not disconnected) inside the session; and no
\* step taken inside the session, into it or out of it changes mode or
\* current_drive.
C36_SessionTakesEveryLine ==
    [][/\ (AsmLineRead /\ strip(last_line') \notin {<<>>, <<".">>}) =>
             /\ SentIn(turn') = <<Shown("send", <<"a", "s", "s", "e", "m", "b", "l", "e", " ", "i", "n", "p", "u", "t", " ">> \o strip(last_line'))>>
             /\ commands' = <<>> /\ rpc' = "prompt" /\ in_assembly'
             /\ sock' = sock
             /\ \A i \in 1..Len(turn') : turn'[i] # Printed(<<"G", "o", "o", "d", "b", "y", "e">>)
       /\ (in_assembly \/ in_assembly') => (mode' = mode /\ current_drive' = current_drive)]_vars

\* C36 witness: .quit typed in the assembly session entered from monitor
\* mode was sent to the assembler, and the session goes on
C36_Witness ==
    /\ in_assembly /\ rpc = "prompt" /\ got = "line" /\ last_line = <<".", "q", "u", "i", "t">>
    /\ mode = "monitor" /\ current_drive = 1 /\ sock = Open
    /\ turn # <<>> /\ turn[1] = Shown("send", <<"a", "s", "s", "e", "m", "b", "l", "e", " ", "i", "n", "p", "u", "t", " ", ".", "q", "u", "i", "t">>)

\* C37: run_repl is left only while handling end-of-input or the line .quit
\* or .shutdown (any case, trimmed), in Normal state; every other turn,
\* whatever the server answers and whatever send raises, leaves the REPL in
\* the loop; and when run_repl is left, by `break` or by an exception, the
\* client has no socket, is not connected and has an empty buffer.
C37_EndsOnlyOnQuit ==
    [][/\ (rpc \notin {"done", "raised"} /\ rpc' \in {"done", "raised"}) =>
             /\ ~in_assembly /\ rpc = "prompt"
             /\ \/ got' = "EOFError"
                \/ /\ got' = "line"
                   /\ lower(strip(last_line')) \in {<<".", "q", "u", "i", "t">>,
                                                     <<".", "s", "h", "u", "t", "d", "o", "w", "n">>}
       /\ rpc' \in {"done", "raised"} => (sock' = NoSock /\ ~connected' /\ buffer' = <<>>)
       /\ rpc \in {"done", "raised"} => rpc' = rpc]_vars

\* C37 witness: .Shutdown was typed in monitor mode, the send of `shutdown`
\* raised a connection error, which left run_repl, and the client is
\* disconnected
C37_Witness ==
    /\ rpc = "raised" /\ got = "line" /\ last_line = <<".", "S", "h", "u", "t", "d", "o", "w", "n">>
    /\ mode = "monitor" /\ reply.kind = "CLIConnectionError"
    /\ sock = NoSock /\ ~connected

\* cmd is a command whose success reply is tracked
IsDriveCommand(cmd) ==
    \/ StartsWith(cmd, <<"d", "o", "s", " ", "c", "d", " ">>)
    \/ StartsWith(cmd, <<"u", "n", "m", "o", "u", "n", "t", " ">>)

\* C39: a step of run_repl changes current_drive only when it is the send of
\* a command of a batch that starts with `dos cd ` or `unmount ` and the
\* reply is a success reply that does not enter the assembly session; so an
\* ERR: reply, an exception of send, a dot-command, a mode switch, the steps
\* into and out of the assembly session and its inputs leave it as it is.
C39_DriveChangesOnlyOnSuccess ==
    [][current_drive' # current_drive =>
          /\ BatchSent /\ IsDriveCommand(Head(commands))
          /\ reply'.kind = "response" /\ reply'.success /\ ~IsAsmEntry(reply')
          /\ ~in_assembly']_vars

\* C39 witness: in dos mode on drive 2, `unmount 2` was answered with a
\* success reply and the REPL is back on drive 1
C39_Witness ==
    /\ rpc = "prompt" /\ got = "line" /\ last_line = <<"u", "n", "m", "o", "u", "n", "t", " ", "2">>
    /\ mode = "dos" /\ current_drive = 1 /\ reply.kind = "response" /\ reply.success
    /\ turn # <<>> /\ turn[1] = Shown("send", <<"u", "n", "m", "o", "u", "n", "t", " ", "2">>)
    /\ Len(turn) >= 2 /\ turn[2] = Shown("current_drive", <<"1">>)

\* the same for DosMode.handle (specification SpecModes): self.current_drive
\* changes only in a round of the loop whose command starts with `dos cd `
\* or `unmount ` and whose reply is a success reply with a payload
DosDriveChangesOnlyOnSuccess ==
    [][h_drive' # h_drive =>
          /\ h_pc = "loop" /\ IsDriveCommand(Head(h_cmds))
          /\ h_reply'.kind = "response" /\ h_reply'.success /\ h_reply'.payload # <<>>]_vars

\* a step of connect or of disconnect: the socket is opened or closed, or
\* the owner is in the handshake of connect before or after the step
ConnectOrDisconnectStep ==
    sock' # sock \/ pc[Owner] = "conn_read" \/ pc'[Owner] = "conn_read"

\* C40: no step of connect or disconnect changes the event queue, and a
\* drain returns the whole queue, oldest first, whatever connects and
\* disconnects came between the reads that queued the events and the drain.
C40_QueueSurvivesReconnect ==
    /\ [][ConnectOrDisconnectStep => event_queue' = event_queue]_vars
    /\ [][event_queue' # event_queue =>
             \/ \E e \in {parse_event(EventFrame(n)) : n \in 1..(MaxEvents + 1)} :
                   event_queue' = Append(event_queue, e) /\ sock' = sock
             \/ event_queue' = <<>> /\ drained' = drained \o event_queue]_vars

\* C40 witness: the owner's send queued two events, the owner has connected
\* again since (which disconnects first), and the two events are still
\* queued in the order read
C40_Witness ==
    /\ result = [t \in Threads |-> NoResult] /\ is_connected
    /\ \A t \in Threads : pc[t] = "idle"
    /\ toServer = <<>> /\ toClient = <<>> /\ drained = <<>>
    /\ evRead = <<EventFrame(1), EventFrame(2)>>
    /\ event_queue = <<parse_event(EventFrame(1)), parse_event(EventFrame(2))>>

====
